---- MODULE Spec2Model ----
(***************************************************************************)
(* Model of the graph store of dynamicgraphviz: the classes _Graph,        *)
(* UndirectedGraph, DirectedGraph, _Node, UndirectedNode, DirectedNode,    *)
(* _Link, Edge and Arc of src/dynamicgraphviz/graph.                       *)
(*                                                                         *)
(* A Python object is a tagged record: a node is identified by its index   *)
(* (the process-wide counter _Node._index gives every node another one),   *)
(* a link by its creation rank.  Every other Python value (numbers,        *)
(* strings, tuples, None) is one value Other: the code only tests such a   *)
(* value with isinstance and with list / dict membership.                  *)
(***************************************************************************)
EXTENDS Integers, Sequences, FiniteSets, TLC

\* Bounds of the model: at most MaxNodes nodes and MaxLinks links are ever
\* created, over all the graphs.
MaxNodes == 2
MaxLinks == 2

\* The graph instances of the process: two undirected graphs, one directed.
UndirectedGraphs == {"ug", "ug2"}
DirectedGraphs == {"dg"}
Graphs == UndirectedGraphs \cup DirectedGraphs

\* _Graph.directed, set by the constructors of the two subclasses.
directed(g) == g \in DirectedGraphs

NodeIds == 1..MaxNodes
LinkIds == 1..MaxLinks

VARIABLES
    nodes,        \* nodes[g]: the list _Graph.__nodes of graph g (node indices)
    links,        \* links[g]: the list _Graph.__links of graph g (link ids)
    index,        \* _Node._index, the index of the next created node
    graphOf,      \* graphOf[n]: the graph whose add_node built node n (fixes its class)
    extremities,  \* extremities[k] = <<_u, _v>> of the k-th created link
    edges,        \* edges[n]: UndirectedNode.__edges, a map neighbor -> edge
    neighbors,    \* neighbors[n]: DirectedNode.__neighbors, a set of nodes
    input_arcs,   \* input_arcs[n]: DirectedNode.__input_arcs, a map node -> arc
    output_arcs,  \* output_arcs[n]: DirectedNode.__output_arcs, a map node -> arc
    call,         \* the call of the public API that has just returned or raised, with
                  \* its outcome, until the caller goes on (NoCall then)
    published,    \* the messages that call sent through pub.sendMessage, in order
    observed,     \* observed[i]: the graphs as they were when published[i] was
                  \* sent, which is what a subscriber sees when it is called
    ident,        \* ident[g]: whether the graph object g is built, live or
                  \* collected, and the value of id(g) while it lives
    subscribed,   \* the subscriptions made with pub.subscribe: the topic, and the
                  \* graph whose events the callback was subscribed for
    past,         \* what the caller remembers of its last successful add_link:
                  \* the graphs as they were before it, and the link it returned
    kk,           \* the local variables of a running place_component
    pack,         \* the local variables of the packing of the component rectangles
    drawer        \* GraphDrawer.__nodeitems and __arcitems of the drawer of a graph

vars == <<nodes, links, index, graphOf, extremities, edges, neighbors,
          input_arcs, output_arcs, call, published, observed, ident, subscribed,
          past, kk, pack, drawer>>

\* The caller's memory, the layout in progress and the drawer
extras == <<past, kk, pack, drawer>>

pubState == <<ident, subscribed>>

graphState == <<nodes, links, index, graphOf, extremities, edges, neighbors,
                input_arcs, output_arcs>>

----------------------------------------------------------------------------
\* Python values

Node(n) == [kind |-> "node", id |-> n]
Link(k) == [kind |-> "link", id |-> k]
Other == [kind |-> "other", id |-> 0]
None == [kind |-> "None", id |-> 0]

CreatedNodes == 1..(index - 1)
CreatedLinks == 1..Len(extremities)

\* The values a caller can hold: every node and link built so far (live,
\* removed, of any graph) and a value that is neither.
Values == {Node(n) : n \in CreatedNodes} \cup {Link(k) : k \in CreatedLinks} \cup {Other}

\* The graph that built link k: links are only built between nodes of the graph.
linkGraph(k) == graphOf[extremities[k][1]]

\* isinstance tests
IsNode(x) == x.kind = "node"
IsLink(x) == x.kind = "link"
IsUndirectedNode(x) == IsNode(x) /\ ~directed(graphOf[x.id])
IsDirectedNode(x) == IsNode(x) /\ directed(graphOf[x.id])
IsEdge(x) == IsLink(x) /\ ~directed(linkGraph(x.id))
IsArc(x) == IsLink(x) /\ directed(linkGraph(x.id))

----------------------------------------------------------------------------
\* Python lists and dicts

InList(s, e) == \E i \in 1..Len(s) : s[i] = e

\* list.remove(e): removes the first occurrence of e
list_remove(s, e) ==
    LET i == CHOOSE j \in 1..Len(s) : s[j] = e /\ \A h \in 1..(j - 1) : s[h] # e
    IN  SubSeq(s, 1, i - 1) \o SubSeq(s, i + 1, Len(s))

EmptyMap == [x \in {} |-> 0]
MapSet(m, k, v) == [x \in (DOMAIN m) \cup {k} |-> IF x = k THEN v ELSE m[x]]
MapDel(m, k) == [x \in (DOMAIN m) \ {k} |-> m[x]]
MapValues(m) == {m[x] : x \in DOMAIN m}

----------------------------------------------------------------------------
\* The outcome of a call

NoCall == [op |-> "none", g |-> "none", args |-> <<>>, exc |-> "none",
           ret |-> None, carried |-> None]

Outcome(op, g, args, exc, ret, carried) ==
    [op |-> op, g |-> g, args |-> args, exc |-> exc, ret |-> ret, carried |-> carried]

Message(g, topic, arg, draw) == [graph |-> g, topic |-> topic, arg |-> arg, draw |-> draw]

\* The values of id(): CPython gives the address of the object, which is
\* distinct from the id of every other object alive at the same time, and
\* which a later object can get once the object is collected.
Addresses == 1..Cardinality(Graphs)
Unbuilt == [life |-> "unbuilt", address |-> 0]
Live(a) == [life |-> "live", address |-> a]
Collected == [life |-> "collected", address |-> 0]
alive(g) == ident[g].life = "live"

\* str(id(self)) + '.' + kind, the topic of the messages of graph g
topic_name(g, kind) == <<ident[g].address, kind>>

\* The four kinds of messages
Kinds == {"add_node", "remove_node", "add_arc", "remove_arc"}

\* What a callback can read of the graphs while pub.sendMessage runs it
Snapshot ==
    [nodes |-> nodes, links |-> links, edges |-> edges, neighbors |-> neighbors,
     input_arcs |-> input_arcs, output_arcs |-> output_arcs]

\* The largest of the numbers S, 0 if there is none
Largest(S) == IF S = {} THEN 0 ELSE CHOOSE x \in S : \A y \in S : y <= x

\* No add_link to remember, no layout running, no drawer built
NoPast == [stage |-> "none"]
NoLayout == [pc |-> "idle"]
NoPacking == [pc |-> "idle"]
NoDrawer == [built |-> FALSE]

NoExtras ==
    /\ past = NoPast
    /\ kk = NoLayout
    /\ pack = NoPacking
    /\ drawer = NoDrawer

----------------------------------------------------------------------------
\* Empty graphs, no node or link built yet, no call made
EmptyGraphs ==
    /\ NoExtras
    /\ nodes = [g \in Graphs |-> <<>>]
    /\ links = [g \in Graphs |-> <<>>]
    /\ index = 1
    /\ graphOf = <<>>
    /\ extremities = <<>>
    /\ edges = [n \in NodeIds |-> EmptyMap]
    /\ neighbors = [n \in NodeIds |-> {}]
    /\ input_arcs = [n \in NodeIds |-> EmptyMap]
    /\ output_arcs = [n \in NodeIds |-> EmptyMap]
    /\ call = NoCall
    /\ published = <<>>
    /\ observed = <<>>

\* The graphs are built and live for the whole run, each at its own address
\* (which address each has makes no difference: one assignment is taken),
\* and nothing is subscribed.
Init ==
    /\ EmptyGraphs
    /\ \E f \in [Graphs -> Addresses] :
          /\ \A g, h \in Graphs : f[g] = f[h] => g = h
          /\ \A g, h \in Graphs : (g = "ug" \/ h = "dg") => f[g] <= f[h]
          /\ ident = [g \in Graphs |-> Live(f[g])]
    /\ subscribed = {}

\* add_node with a slip: the message is sent before the node is appended.
add_node_publishes_first(g) ==
    /\ index <= MaxNodes
    /\ nodes' = [nodes EXCEPT ![g] = Append(@, index)]
    /\ graphOf' = Append(graphOf, g)
    /\ index' = index + 1
    /\ published' = <<Message(g, "add_node", Node(index), TRUE)>>
    /\ observed' = <<Snapshot>>
    /\ call' = Outcome("add_node", g, <<>>, "none", Node(index), None)
    /\ UNCHANGED <<links, extremities, edges, neighbors, input_arcs, output_arcs>>

\* add_node with a slip: the new node is put at the head of the node list.
add_node_at_head(g) ==
    /\ index <= MaxNodes
    /\ nodes' = [nodes EXCEPT ![g] = <<index>> \o @]
    /\ graphOf' = Append(graphOf, g)
    /\ index' = index + 1
    /\ published' = <<Message(g, "add_node", Node(index), TRUE)>>
    /\ call' = Outcome("add_node", g, <<>>, "none", Node(index), None)
    /\ UNCHANGED <<links, extremities, edges, neighbors, input_arcs, output_arcs>>
    /\ observed' = <<Snapshot'>>

\* _Graph.add_node
add_node(g) ==
    /\ index <= MaxNodes
    /\ nodes' = [nodes EXCEPT ![g] = Append(@, index)]
    /\ graphOf' = Append(graphOf, g)
    /\ index' = index + 1
    /\ published' = <<Message(g, "add_node", Node(index), TRUE)>>
    /\ call' = Outcome("add_node", g, <<>>, "none", Node(index), None)
    /\ UNCHANGED <<links, extremities, edges, neighbors, input_arcs, output_arcs>>
    /\ observed' = <<Snapshot'>>

----------------------------------------------------------------------------
\* Membership tests

\* _Graph._contain_node / _contain_link: `x in list`, which compares with ==
\* (identity for nodes and links), so only a node can be found in __nodes
\* and only a link in __links.
contain_node(g, x) == IsNode(x) /\ InList(nodes[g], x.id)
contain_link(g, x) == IsLink(x) /\ InList(links[g], x.id)

\* `x in g`.  DirectedGraph defines __contains__; UndirectedGraph does not, so
\* Python falls back on _Graph.__iter__, which iterates over the nodes only.
contains(g, x) ==
    IF directed(g)
    THEN IF IsDirectedNode(x) THEN contain_node(g, x)
         ELSE IF IsArc(x) THEN contain_link(g, x)
         ELSE FALSE
    ELSE contain_node(g, x)

----------------------------------------------------------------------------
\* _Link

\* _Link.neighbor(v) for the link k and the node n
neighbor(k, n) ==
    IF n = extremities[k][1] THEN Node(extremities[k][2])
    ELSE IF n = extremities[k][2] THEN Node(extremities[k][1])
    ELSE None

\* The number of parameters of _Link.__init__ besides self, and the number of
\* arguments the two _build_link methods give to the constructors of Edge and
\* Arc, which both inherit _Link.__init__.
LinkInitParams == 2
EdgeCallArgs == 2
ArcCallArgs == 3

\* UndirectedGraph._build_link / DirectedGraph._build_link: the exception of
\* the constructor call ("none" when the link is built).
build_link(g) ==
    IF (IF directed(g) THEN ArcCallArgs ELSE EdgeCallArgs) = LinkInitParams
    THEN "none" ELSE "TypeError"

----------------------------------------------------------------------------
\* UndirectedNode.  The operators take the map E of all the __edges maps and
\* return the exception raised with the map as the method leaves it.

\* UndirectedNode.is_neighbor_of
is_neighbor_of(n, v) == IsNode(v) /\ v.id \in DOMAIN edges[n]

\* UndirectedNode.get_incident_edge
get_incident_edge(n, v) == Link(edges[n][v.id])

\* UndirectedNode._add_incident_edge, with the extremities ext of the new edge k
add_incident_edge(E, ext, n, k) ==
    LET v == IF n = ext[1] THEN ext[2] ELSE IF n = ext[2] THEN ext[1] ELSE 0
    IN  IF v # 0
        THEN [exc |-> "none", E |-> [E EXCEPT ![n] = MapSet(@, v, k)]]
        ELSE [exc |-> "AttributeError", E |-> E]

\* UndirectedNode._remove_neighbor
remove_neighbor(E, n, v) ==
    IF v \in DOMAIN E[n]
    THEN [exc |-> "none", E |-> [E EXCEPT ![n] = MapDel(@, v)]]
    ELSE [exc |-> "AttributeError", E |-> E]

\* remove_incident_edge with a slip: only the first extremity of the edge
\* forgets its neighbor.
remove_incident_edge_first_only(E, n, k) ==
    IF n = extremities[k][1]
    THEN remove_neighbor(E, n, extremities[k][2])
    ELSE [exc |-> "none", E |-> E]

\* UndirectedNode._remove_incident_edge
remove_incident_edge(E, n, k) ==
    LET v == neighbor(k, n)
    IN  IF v # None
        THEN remove_neighbor(E, n, v.id)
        ELSE [exc |-> "AttributeError", E |-> E]

----------------------------------------------------------------------------
\* DirectedNode.  The operators take the record D of the three attributes of
\* all the nodes and return the exception raised with the record as the
\* method leaves it.

DirectedState == [nb |-> neighbors, ia |-> input_arcs, oa |-> output_arcs]

\* DirectedNode.is_input_neighbor_of: there is an arc from this node to v
is_input_neighbor_of(n, v) == IsNode(v) /\ v.id \in DOMAIN output_arcs[n]

\* DirectedNode.is_output_neighbor_of: there is an arc from v to this node
is_output_neighbor_of(n, v) == IsNode(v) /\ v.id \in DOMAIN input_arcs[n]

\* DirectedNode.is_neighbor_of
directed_is_neighbor_of(n, v) == IsNode(v) /\ v.id \in neighbors[n]

\* DirectedNode.get_output_arc / get_input_arc on a key of the map
get_output_arc(n, v) == Link(output_arcs[n][v.id])
get_input_arc(n, v) == Link(input_arcs[n][v.id])

\* DirectedNode._add_incident_arc, with the extremities ext of the new arc k
add_incident_arc(D, ext, n, k) ==
    IF ext[1] = n
    THEN [exc |-> "none",
          D |-> [D EXCEPT !.oa[n] = MapSet(@, ext[2], k), !.nb[n] = @ \cup {ext[2]}]]
    ELSE IF ext[2] = n
    THEN [exc |-> "none",
          D |-> [D EXCEPT !.ia[n] = MapSet(@, ext[1], k), !.nb[n] = @ \cup {ext[1]}]]
    ELSE [exc |-> "AttributeError", D |-> D]

\* DirectedNode._remove_input_neighbor
remove_input_neighbor(D, n, v) ==
    IF v \notin DOMAIN D.ia[n]
    THEN [exc |-> "TypeError", D |-> D]
    ELSE LET D1 == [D EXCEPT !.ia[n] = MapDel(@, v)]
         IN  IF v \in DOMAIN D1.oa[n]
             THEN [exc |-> "none", D |-> D1]
             ELSE IF v \in D1.nb[n]
             THEN [exc |-> "none", D |-> [D1 EXCEPT !.nb[n] = @ \ {v}]]
             ELSE [exc |-> "TypeError", D |-> D1]

\* DirectedNode._remove_output_neighbor
remove_output_neighbor(D, n, v) ==
    IF v \notin DOMAIN D.oa[n]
    THEN [exc |-> "TypeError", D |-> D]
    ELSE LET D1 == [D EXCEPT !.oa[n] = MapDel(@, v)]
         IN  IF v \in DOMAIN D1.ia[n]
             THEN [exc |-> "none", D |-> D1]
             ELSE IF v \in D1.nb[n]
             THEN [exc |-> "none", D |-> [D1 EXCEPT !.nb[n] = @ \ {v}]]
             ELSE [exc |-> "TypeError", D |-> D1]

\* DirectedNode._remove_incident_arc
remove_incident_arc(D, n, k) ==
    IF extremities[k][1] = n THEN remove_output_neighbor(D, n, extremities[k][2])
    ELSE IF extremities[k][2] = n THEN remove_input_neighbor(D, n, extremities[k][1])
    ELSE [exc |-> "AttributeError", D |-> D]

----------------------------------------------------------------------------
\* The lookups of the nodes, as a caller makes them with any value v: the
\* exception raised ("none" when the lookup returns) and the value returned.

\* UndirectedNode.get_incident_edge: `self.__edges[v]` with no handler, so a
\* value that is not a key of the map raises the KeyError of the dict.
UndirectedNode_get_incident_edge(n, v) ==
    IF IsNode(v) /\ v.id \in DOMAIN edges[n]
    THEN [exc |-> "none", ret |-> Link(edges[n][v.id])]
    ELSE [exc |-> "KeyError", ret |-> None]

\* `raise NodeError(self.__graph, ...)` in a method of DirectedNode: inside
\* that class the name is _DirectedNode__graph, while _Node.__init__ has set
\* _Node__graph, so the evaluation of the arguments raises AttributeError and
\* no NodeError is built.
DirectedNode_raise_NodeError == "AttributeError"

\* DirectedNode.get_input_arc
DirectedNode_get_input_arc(n, v) ==
    IF IsNode(v) /\ v.id \in DOMAIN input_arcs[n]
    THEN [exc |-> "none", ret |-> Link(input_arcs[n][v.id])]
    ELSE IF IsDirectedNode(v)
    THEN [exc |-> DirectedNode_raise_NodeError, ret |-> None]
    ELSE [exc |-> "TypeError", ret |-> None]

\* DirectedNode.get_output_arc
DirectedNode_get_output_arc(n, v) ==
    IF IsNode(v) /\ v.id \in DOMAIN output_arcs[n]
    THEN [exc |-> "none", ret |-> Link(output_arcs[n][v.id])]
    ELSE IF IsDirectedNode(v)
    THEN [exc |-> DirectedNode_raise_NodeError, ret |-> None]
    ELSE [exc |-> "TypeError", ret |-> None]

\* DirectedNode.get_incident_arc: the input arc, and the output arc when
\* get_input_arc raises NodeError; any other exception goes to the caller.
DirectedNode_get_incident_arc(n, v) ==
    LET r == DirectedNode_get_input_arc(n, v)
    IN  IF r.exc = "NodeError" THEN DirectedNode_get_output_arc(n, v) ELSE r

\* DirectedNode.nb_neighbors, nb_input_neighbors, nb_output_neighbors
nb_neighbors(n) == Cardinality(neighbors[n])
nb_input_neighbors(n) == Cardinality(DOMAIN input_arcs[n])
nb_output_neighbors(n) == Cardinality(DOMAIN output_arcs[n])

\* DirectedNode.incident_arcs: the values of the output map, then those of
\* the input map
incident_arcs(n) ==
    LET seqOf(m) == LET RECURSIVE enum(_)
                        enum(S) == IF S = {} THEN <<>>
                                   ELSE LET x == CHOOSE y \in S : \A z \in S : y <= z
                                        IN  <<m[x]>> \o enum(S \ {x})
                    IN  enum(DOMAIN m)
    IN  seqOf(output_arcs[n]) \o seqOf(input_arcs[n])

\* _Link.neighbor (Edge.neighbor and Arc.neighbor call it), as a caller makes
\* it with any value x: the value compares with == to the two extremities,
\* and None is returned when it equals neither; nothing is raised.
Link_neighbor(k, x) ==
    IF IsNode(x) /\ x.id = extremities[k][1]
    THEN [exc |-> "none", ret |-> Node(extremities[k][2])]
    ELSE IF IsNode(x) /\ x.id = extremities[k][2]
    THEN [exc |-> "none", ret |-> Node(extremities[k][1])]
    ELSE [exc |-> "none", ret |-> None]

\* _Node.is_incident_to, which UndirectedNode.is_incident_to calls: the node
\* is compared with the extremities of l; a value without extremities raises
\* AttributeError.
UndirectedNode_is_incident_to(n, l) ==
    IF IsLink(l)
    THEN [exc |-> "none", ret |-> n \in {extremities[l.id][1], extremities[l.id][2]}]
    ELSE [exc |-> "AttributeError", ret |-> FALSE]

\* DirectedNode.is_input_arc / is_output_arc: membership in the values of the map
is_input_arc(n, l) == IsLink(l) /\ l.id \in MapValues(input_arcs[n])
is_output_arc(n, l) == IsLink(l) /\ l.id \in MapValues(output_arcs[n])

\* DirectedNode.is_incident_to
DirectedNode_is_incident_to(n, l) ==
    [exc |-> "none", ret |-> is_input_arc(n, l) \/ is_output_arc(n, l)]

\* UndirectedNode.incident_edges: the values of the map
incident_edges(n) == MapValues(edges[n])

----------------------------------------------------------------------------
\* remove_node with a slip: the class counter goes back by one, so that the
\* index of the removed node is given again.
remove_node_gives_index_back(g, v) ==
    /\ IF contain_node(g, v)
       THEN /\ nodes' = [nodes EXCEPT ![g] = list_remove(@, v.id)]
            /\ index' = index - 1
            /\ call' = Outcome("remove_node", g, <<v>>, "AttributeError", None, None)
       ELSE /\ nodes' = nodes
            /\ index' = index
            /\ call' = Outcome("remove_node", g, <<v>>,
                               IF IsNode(v) THEN "NodeMembershipError" ELSE "TypeError",
                               None, None)
    /\ published' = <<>>
    /\ observed' = <<>>
    /\ UNCHANGED <<links, graphOf, extremities, edges, neighbors,
                   input_arcs, output_arcs>>

\* remove_node with a slip: the remove_node message is sent before
\* list.remove is tried, so a refused call publishes too.
remove_node_publishes_first(g, v) ==
    /\ IF contain_node(g, v)
       THEN /\ nodes' = [nodes EXCEPT ![g] = list_remove(@, v.id)]
            /\ call' = Outcome("remove_node", g, <<v>>, "AttributeError", None, None)
       ELSE /\ nodes' = nodes
            /\ call' = Outcome("remove_node", g, <<v>>,
                               IF IsNode(v) THEN "NodeMembershipError" ELSE "TypeError",
                               None, None)
    /\ published' = <<Message(g, "remove_node", v, TRUE)>>
    /\ observed' = <<>>
    /\ UNCHANGED <<links, index, graphOf, extremities, edges, neighbors,
                   input_arcs, output_arcs>>

\* _Graph.remove_node.  When v is in __nodes, list.remove succeeds and the
\* loop header then reads v.incident_edges_and_arcs: no class of the package
\* defines that attribute, so the read raises AttributeError, which the
\* `except ValueError` clause does not catch.
remove_node(g, v) ==
    /\ IF contain_node(g, v)
       THEN /\ nodes' = [nodes EXCEPT ![g] = list_remove(@, v.id)]
            /\ call' = Outcome("remove_node", g, <<v>>, "AttributeError", None, None)
       ELSE /\ nodes' = nodes
            /\ call' = Outcome("remove_node", g, <<v>>,
                               IF IsNode(v) THEN "NodeMembershipError" ELSE "TypeError",
                               None, None)
    /\ published' = <<>>
    /\ observed' = <<>>
    /\ UNCHANGED <<links, index, graphOf, extremities, edges, neighbors,
                   input_arcs, output_arcs>>

\* add_link_check with a slip: the test `u == v` is left out.
add_link_check_no_loop_test(g, u, v) ==
    IF ~contains(g, u)
    THEN [exc |-> IF IsNode(u) THEN "NodeMembershipError" ELSE "TypeError", carried |-> None]
    ELSE IF ~contains(g, v)
    THEN [exc |-> IF IsNode(v) THEN "NodeMembershipError" ELSE "TypeError", carried |-> None]
    ELSE IF directed(g) /\ is_input_neighbor_of(u.id, v)
    THEN [exc |-> "LinkError", carried |-> get_output_arc(u.id, v)]
    ELSE IF ~directed(g) /\ is_neighbor_of(u.id, v)
    THEN [exc |-> "LinkError", carried |-> get_incident_edge(u.id, v)]
    ELSE [exc |-> "none", carried |-> None]

\* add_link_check with a slip: the test on an existing edge is left out.
add_link_check_no_edge_test(g, u, v) ==
    IF ~contains(g, u)
    THEN [exc |-> IF IsNode(u) THEN "NodeMembershipError" ELSE "TypeError", carried |-> None]
    ELSE IF ~contains(g, v)
    THEN [exc |-> IF IsNode(v) THEN "NodeMembershipError" ELSE "TypeError", carried |-> None]
    ELSE IF u = v
    THEN [exc |-> "GraphError", carried |-> None]
    ELSE IF directed(g) /\ is_input_neighbor_of(u.id, v)
    THEN [exc |-> "LinkError", carried |-> get_output_arc(u.id, v)]
    ELSE [exc |-> "none", carried |-> None]

\* add_link_check with a slip: the membership of v is not tested.
add_link_check_no_test_of_v(g, u, v) ==
    IF ~contains(g, u)
    THEN [exc |-> IF IsNode(u) THEN "NodeMembershipError" ELSE "TypeError", carried |-> None]
    ELSE IF u = v
    THEN [exc |-> "GraphError", carried |-> None]
    ELSE IF directed(g) /\ is_input_neighbor_of(u.id, v)
    THEN [exc |-> "LinkError", carried |-> get_output_arc(u.id, v)]
    ELSE IF ~directed(g) /\ is_neighbor_of(u.id, v)
    THEN [exc |-> "LinkError", carried |-> get_incident_edge(u.id, v)]
    ELSE [exc |-> "none", carried |-> None]

\* The exception of the checks of _Graph._add_link on its arguments, with the
\* link a LinkError carries.
add_link_check(g, u, v) ==
    IF ~contains(g, u)
    THEN [exc |-> IF IsNode(u) THEN "NodeMembershipError" ELSE "TypeError", carried |-> None]
    ELSE IF ~contains(g, v)
    THEN [exc |-> IF IsNode(v) THEN "NodeMembershipError" ELSE "TypeError", carried |-> None]
    ELSE IF u = v
    THEN [exc |-> "GraphError", carried |-> None]
    ELSE IF directed(g) /\ is_input_neighbor_of(u.id, v)
    THEN [exc |-> "LinkError", carried |-> get_output_arc(u.id, v)]
    ELSE IF ~directed(g) /\ is_neighbor_of(u.id, v)
    THEN [exc |-> "LinkError", carried |-> get_incident_edge(u.id, v)]
    ELSE [exc |-> "none", carried |-> None]

\* _Graph._add_link (UndirectedGraph.add_edge, DirectedGraph.add_arc)
add_link(g, u, v) ==
    LET chk == add_link_check(g, u, v)
        k == Len(extremities) + 1
    IN  IF chk.exc # "none"
        THEN /\ call' = Outcome("add_link", g, <<u, v>>, chk.exc, None, chk.carried)
             /\ published' = <<>>
             /\ observed' = <<>>
             /\ UNCHANGED graphState
        ELSE IF build_link(g) # "none"
        THEN /\ call' = Outcome("add_link", g, <<u, v>>, build_link(g), None, None)
             /\ published' = <<>>
             /\ observed' = <<>>
             /\ UNCHANGED graphState
        ELSE /\ k <= MaxLinks
             /\ extremities' = Append(extremities, <<u.id, v.id>>)
             /\ UNCHANGED <<nodes, index, graphOf>>
             /\ IF directed(g)
                THEN LET r1 == add_incident_arc(DirectedState, <<u.id, v.id>>, u.id, k)
                         r2 == add_incident_arc(r1.D, <<u.id, v.id>>, v.id, k)
                         exc == IF r1.exc # "none" THEN r1.exc ELSE r2.exc
                         D == IF r1.exc # "none" THEN r1.D ELSE r2.D
                     IN  /\ neighbors' = D.nb
                         /\ input_arcs' = D.ia
                         /\ output_arcs' = D.oa
                         /\ edges' = edges
                         /\ links' = IF exc = "none" THEN [links EXCEPT ![g] = Append(@, k)] ELSE links
                         /\ published' = IF exc = "none"
                                         THEN <<Message(g, "add_arc", Link(k), TRUE)>> ELSE <<>>
                         /\ observed' = IF exc = "none" THEN <<Snapshot'>> ELSE <<>>
                         /\ call' = Outcome("add_link", g, <<u, v>>, exc,
                                            IF exc = "none" THEN Link(k) ELSE None, None)
                ELSE LET r1 == add_incident_edge(edges, <<u.id, v.id>>, u.id, k)
                         r2 == add_incident_edge(r1.E, <<u.id, v.id>>, v.id, k)
                         exc == IF r1.exc # "none" THEN r1.exc ELSE r2.exc
                         E == IF r1.exc # "none" THEN r1.E ELSE r2.E
                     IN  /\ edges' = E
                         /\ UNCHANGED <<neighbors, input_arcs, output_arcs>>
                         /\ links' = IF exc = "none" THEN [links EXCEPT ![g] = Append(@, k)] ELSE links
                         /\ published' = IF exc = "none"
                                         THEN <<Message(g, "add_arc", Link(k), TRUE)>> ELSE <<>>
                         /\ observed' = IF exc = "none" THEN <<Snapshot'>> ELSE <<>>
                         /\ call' = Outcome("add_link", g, <<u, v>>, exc,
                                            IF exc = "none" THEN Link(k) ELSE None, None)

\* _Graph.__remove_link
private_remove_link(g, l, draw) ==
    IF ~contain_link(g, l)
    THEN /\ call' = Outcome("remove_link", g, <<l>>,
                            IF IsLink(l) THEN "LinkMembershipError" ELSE "TypeError",
                            None, IF IsLink(l) THEN l ELSE None)
         /\ published' = <<>>
         /\ observed' = <<>>
         /\ UNCHANGED graphState
    ELSE LET k == l.id
             u == extremities[k][1]
             v == extremities[k][2]
         IN  /\ links' = [links EXCEPT ![g] = list_remove(@, k)]
             /\ UNCHANGED <<nodes, index, graphOf, extremities>>
             /\ IF directed(g)
                THEN LET r1 == remove_incident_arc(DirectedState, u, k)
                         r2 == remove_incident_arc(r1.D, v, k)
                         exc == IF r1.exc # "none" THEN r1.exc ELSE r2.exc
                         D == IF r1.exc # "none" THEN r1.D ELSE r2.D
                     IN  /\ neighbors' = D.nb
                         /\ input_arcs' = D.ia
                         /\ output_arcs' = D.oa
                         /\ edges' = edges
                         /\ published' = IF exc = "none"
                                         THEN <<Message(g, "remove_arc", l, draw)>> ELSE <<>>
                         /\ observed' = IF exc = "none" THEN <<Snapshot'>> ELSE <<>>
                         /\ call' = Outcome("remove_link", g, <<l>>, exc, None, None)
                ELSE LET r1 == remove_incident_edge(edges, u, k)
                         r2 == remove_incident_edge(r1.E, v, k)
                         exc == IF r1.exc # "none" THEN r1.exc ELSE r2.exc
                         E == IF r1.exc # "none" THEN r1.E ELSE r2.E
                     IN  /\ edges' = E
                         /\ UNCHANGED <<neighbors, input_arcs, output_arcs>>
                         /\ published' = IF exc = "none"
                                         THEN <<Message(g, "remove_arc", l, draw)>> ELSE <<>>
                         /\ observed' = IF exc = "none" THEN <<Snapshot'>> ELSE <<>>
                         /\ call' = Outcome("remove_link", g, <<l>>, exc, None, None)

\* remove_link with a slip: the message asks for no refresh of the drawing.
remove_link_no_refresh(g, l) == private_remove_link(g, l, FALSE)

\* _Graph._remove_link (UndirectedGraph.remove_edge, DirectedGraph.remove_arc)
remove_link(g, l) == private_remove_link(g, l, TRUE)

----------------------------------------------------------------------------
\* The caller has read the outcome of its call (the value returned or the
\* exception caught) and goes on to its next call.
Continue ==
    /\ call # NoCall
    /\ call' = NoCall
    /\ published' = <<>>
    /\ observed' = <<>>
    /\ UNCHANGED graphState
    /\ UNCHANGED pubState
    /\ UNCHANGED extras

\* The calls of the public API, made by a caller that is not looking at the
\* outcome of an earlier call, with every value it can hold as argument.
AddNode ==
    call = NoCall /\ UNCHANGED pubState /\ UNCHANGED extras /\ \E g \in Graphs : alive(g) /\ add_node(g)
RemoveNode ==
    call = NoCall /\ UNCHANGED pubState /\ UNCHANGED extras
    /\ \E g \in Graphs : alive(g) /\ \E v \in Values : remove_node(g, v)
AddLink ==
    call = NoCall /\ UNCHANGED pubState /\ UNCHANGED extras
    /\ \E g \in Graphs : alive(g) /\ \E u, v \in Values : add_link(g, u, v)
RemoveLink ==
    call = NoCall /\ UNCHANGED pubState /\ UNCHANGED extras
    /\ \E g \in Graphs : alive(g) /\ \E l \in Values : remove_link(g, l)

Next == AddNode \/ RemoveNode \/ AddLink \/ RemoveLink \/ Continue

Spec == Init /\ [][Next]_vars

----------------------------------------------------------------------------
\* A caller that adds a link, removes it at once and adds it again

\* The caller works on one undirected and one directed graph
TripGraphs == {"ug", "dg"}

\* What the caller keeps of l = add_link(u, v): the graphs before the call,
\* the arguments and l
Remembered(stage, snap, g, u, v, l) ==
    [stage |-> stage, snap |-> snap, g |-> g, u |-> u, v |-> v, link |-> l]

\* l = g.add_edge(u, v) or g.add_arc(u, v).  A call that succeeds right after
\* the link of the same nodes was removed is the second add_link of the trip;
\* any other that succeeds starts a trip.
TripAddLink ==
    /\ call = NoCall
    /\ \E g \in TripGraphs : \E u, v \in Values :
          /\ alive(g)
          /\ add_link(g, u, v)
          /\ past' = IF call'.exc # "none" THEN NoPast
                     ELSE IF past.stage = "removed" /\ past.g = g
                             /\ past.u = u /\ past.v = v
                     THEN Remembered("again", past.snap, g, u, v, past.link)
                     ELSE Remembered("added", Snapshot, g, u, v, call'.ret)
    /\ UNCHANGED <<pubState, kk, pack, drawer>>

\* g.remove_edge(l) or g.remove_arc(l), which ends the trip when l is the
\* link that the last call returned
TripRemoveLink ==
    /\ call = NoCall
    /\ \E g \in TripGraphs : \E l \in Values :
          /\ alive(g)
          /\ remove_link(g, l)
          /\ past' = IF past.stage = "added" /\ past.g = g /\ past.link = l
                     THEN [past EXCEPT !.stage = "removed"]
                     ELSE NoPast
    /\ UNCHANGED <<pubState, kk, pack, drawer>>

\* The other calls, after which no trip is under way
TripAddNode ==
    /\ call = NoCall
    /\ \E g \in TripGraphs : alive(g) /\ add_node(g)
    /\ past' = NoPast
    /\ UNCHANGED <<pubState, kk, pack, drawer>>

TripRemoveNode ==
    /\ call = NoCall
    /\ \E g \in TripGraphs : alive(g) /\ \E v \in Values : remove_node(g, v)
    /\ past' = NoPast
    /\ UNCHANGED <<pubState, kk, pack, drawer>>

NextTrip == TripAddNode \/ TripRemoveNode \/ TripAddLink \/ TripRemoveLink \/ Continue

SpecTrip == Init /\ [][NextTrip]_vars

----------------------------------------------------------------------------
\* The main loop of place_component, the placement of one connected component

MAXIMUM_ITERATIONS_PER_NODE == 100
MAXIMUM_RESET == 10

\* The largest number of nodes of the graphs that are laid out
MaxLayoutNodes == 2

\* What the evaluation of delta(u), or of solve(u) and then delta(u), can
\* give: a value above epsilon, a value that is not (a NaN is not above it),
\* or a ZeroDivisionError (two nodes at the same point, or a determinant 0)
Gradients == {"above", "below", "raise"}

\* The local variables when place_component reaches its loop in a graph of n
\* nodes, with the largest delta above epsilon or not.  positions tells what
\* wrote the positions last: the drawer ("items"), solve or a random reset.
place_component_start(n, above) ==
    [pc |-> "start", n |-> n, above |-> above, reset_index |-> 0,
     outer_iteration |-> 0, inner_iteration |-> 0, positions |-> "items"]

\* The call is over, by a return ("done") or by an exception ("raised"): its
\* counters are gone with its frame, and what is kept is how it ended and how
\* many resets it made.
place_component_end(k, how) == [pc |-> how, n |-> k.n, reset_index |-> k.reset_index]

\* The branch taken on stagnation with a slip: reset_index is not incremented.
stagnation_without_count(k) ==
    IF k.reset_index > MAXIMUM_RESET
    THEN [k EXCEPT !.pc = "gave_up"]
    ELSE [k EXCEPT !.pc = "reselect", !.positions = "random", !.outer_iteration = 0]

\* The branch taken when a counter is over the limit: give up and return
\* when reset_index > MAXIMUM_RESET, else draw every position of the
\* component with random.randint(0, WIDTH), random.randint(0, HEIGHT),
\* set outer_iteration to 0, add one to reset_index and break.
stagnation(k) ==
    IF k.reset_index > MAXIMUM_RESET
    THEN [k EXCEPT !.pc = "gave_up"]
    ELSE [k EXCEPT !.pc = "reselect", !.positions = "random", !.outer_iteration = 0,
                   !.reset_index = @ + 1]

\* The test of the outer `while dlt > epsilon`, and when it holds
\* `outer_iteration += 1; inner_iteration = 0`, which leads to the first
\* test of the inner loop, the same; the function returns when it does not.
outer_loop(k) ==
    IF k.above
    THEN [k EXCEPT !.pc = "inner", !.outer_iteration = @ + 1, !.inner_iteration = 0]
    ELSE place_component_end(k, "done")

\* `u, dlt = max(((u, delta(u)) for u in comp), key=...)` of the first call,
\* up to the first turn of the inner loop
PlaceComponent ==
    /\ kk = NoLayout
    /\ \E n \in 2..MaxLayoutNodes : \E d \in Gradients :
          kk' = IF d = "raise" THEN place_component_end(place_component_start(n, FALSE), "raised")
                ELSE outer_loop(place_component_start(n, d = "above"))
    /\ UNCHANGED <<graphState, pubState, call, published, observed, past, pack, drawer>>

\* One turn of the body of the inner `while dlt > epsilon`, up to its next
\* test, which ends the loop when dlt is not above epsilon.  The value that
\* inner_iteration has when the loop ends this way is never read (the code
\* either returns or sets it to 0 first): the model sets it to 0 at once.
InnerLoop ==
    /\ kk.pc = "inner"
    /\ LET k == [kk EXCEPT !.inner_iteration = @ + 1]
       IN  IF \/ k.outer_iteration > MAXIMUM_ITERATIONS_PER_NODE * k.n
              \/ k.inner_iteration > MAXIMUM_ITERATIONS_PER_NODE * k.n
           THEN kk' = stagnation(k)
           ELSE \E d \in Gradients :
                   kk' = IF d = "raise" THEN place_component_end(k, "raised")
                         ELSE IF d = "above" THEN [k EXCEPT !.positions = "solve"]
                         ELSE [k EXCEPT !.positions = "solve", !.above = FALSE,
                                        !.pc = "reselect", !.inner_iteration = 0]
    /\ UNCHANGED <<graphState, pubState, call, published, observed, past, pack, drawer>>

\* `u, dlt = max(((u, delta(u)) for u in comp), key=...)` after the inner
\* loop, up to the first turn of the next inner loop
Reselect ==
    /\ kk.pc = "reselect"
    /\ \E d \in Gradients :
          kk' = IF d = "raise" THEN place_component_end(kk, "raised")
                ELSE outer_loop([kk EXCEPT !.above = (d = "above")])
    /\ UNCHANGED <<graphState, pubState, call, published, observed, past, pack, drawer>>

NextPlacement == PlaceComponent \/ InnerLoop \/ Reselect

\* The interpreter goes on running the function as long as it has not ended
SpecPlacement == Init /\ [][NextPlacement]_vars /\ WF_vars(NextPlacement)

----------------------------------------------------------------------------
\* The packing of the rectangles of the components, and the rescaling

WIDTH == 1400
HEIGHT == 800
NODE_RADIUS == 20

\* The largest number of connected components of the graphs that are laid out
MaxComponents == 3

\* Floating point: the result of an operation is the representable number
\* nearest to the exact result.  The model keeps the rounding and not the
\* precision: its representable numbers are the integers.  a / b, and
\* x * (a / b) as RoundDiv(x * a, b), for a >= 0 and b > 0:
RoundDiv(a, b) == (2 * a + b) \div (2 * b)

\* math.sqrt(n), between lo and hi
RECURSIVE RoundSqrt(_, _, _)
RoundSqrt(n, lo, hi) ==
    IF lo = hi THEN (IF n - lo * lo > lo THEN lo + 1 ELSE lo)
    ELSE LET mid == (lo + hi + 1) \div 2
         IN  IF mid * mid <= n THEN RoundSqrt(n, mid, hi) ELSE RoundSqrt(n, lo, mid - 1)

\* _intersect with a slip: only the top left corner of the first rectangle
\* is looked for inside the second.
intersect_corner_only(r1, r2) ==
    /\ r1[1] > r2[1] /\ r2[1] + r2[3] > r1[1]
    /\ r1[2] > r2[2] /\ r2[2] + r2[4] > r1[2]

\* _intersect and helpers.geomhelper.intersect
intersect(r1, r2) ==
    /\ r1[1] + r1[3] > r2[1] /\ r2[1] + r2[3] > r1[1]
    /\ r1[2] + r1[4] > r2[2] /\ r2[2] + r2[4] > r1[2]

\* What the packing reads of a component once its nodes are placed: len(comp)
\* and the extents maxsx - minsx and maxsy - minsy of the positions of its
\* nodes.  A component of one node has the extents 0; in a component of more
\* nodes two nodes are never at the same point (place_component would have
\* raised), so one extent at least is not 0.
Components_placed ==
    {[len |-> 1, dx |-> 0, dy |-> 0]} \cup
    {c \in [len : {3, 2000}, dx : {0, 100, 320}, dy : {0, 100, 320}] :
        c.dx # 0 \/ c.dy # 0}

\* max(maxsx[comp] - minsx[comp], 4 * NODE_RADIUS), the same for y: the two
\* terms of ratios[comp]
ratio_terms(c) ==
    [y |-> IF c.dy > 4 * NODE_RADIUS THEN c.dy ELSE 4 * NODE_RADIUS,
     x |-> IF c.dx > 4 * NODE_RADIUS THEN c.dx ELSE 4 * NODE_RADIUS]

\* rectm1, the rectangle of the largest component
largest_rectangle(c) ==
    LET r == ratio_terms(c)
    IN  IF r.y <= r.x THEN <<0, 0, WIDTH, RoundDiv(WIDTH * r.y, r.x)>>
        ELSE <<0, 0, RoundDiv(HEIGHT * r.x, r.y), HEIGHT>>

\* w1 = math.sqrt(area_size_ratio * len(comp) / r1) and h1 = w1 * r1
rectangle_size(area_size_ratio, c) ==
    LET r == ratio_terms(c)
        w1 == RoundSqrt(RoundDiv(area_size_ratio * c.len * r.x, r.y), 0, 2 * WIDTH)
    IN  <<w1, RoundDiv(w1 * r.y, r.x)>>

\* candidates: three corners of each rectangle placed so far, in the order
\* of the list components[index + 1:]
RECURSIVE candidates(_, _, _)
candidates(rectangles, i, m) ==
    IF i > m THEN <<>>
    ELSE LET r == rectangles[i]
         IN  <<<<r[1] + r[3], r[2]>>, <<r[1], r[2] + r[4]>>, <<r[1] + r[3], r[2] + r[4]>>>>
             \o candidates(rectangles, i + 1, m)

\* _score(x1, y1) for the rectangle of size sz: -1 stands for None
score(p, sz, q) ==
    IF \E i \in DOMAIN q.rectangles : intersect(<<p[1], p[2], sz[1], sz[2]>>, q.rectangles[i])
    THEN -1
    ELSE Largest({q.wmax, p[1] + sz[1], q.hmax, p[2] + sz[2]})

\* `min((scrs for scrs in scores if scrs[1] is not None), key=...)[0]`: the
\* first of the candidates with the least score; <<>> when the generator is
\* empty, where min raises ValueError
best_candidate(cands, sz, q) ==
    LET valid == SelectSeq(cands, LAMBDA p : score(p, sz, q) # -1)
        least == {i \in 1..Len(valid) :
                     \A j \in 1..Len(valid) : score(valid[i], sz, q) <= score(valid[j], sz, q)}
    IN  IF valid = <<>> THEN <<>>
        ELSE valid[CHOOSE i \in least : \A j \in least : i <= j]

\* The locals once the largest component, the last of the list comps sorted
\* by len, has its rectangle
packing_start(comps) ==
    LET m == Len(comps)
        rectm1 == largest_rectangle(comps[m])
    IN  [pc |-> "packing", comps |-> comps, index |-> m - 1,
         rectangles |-> MapSet(EmptyMap, m, rectm1),
         area_size_ratio |-> RoundDiv(rectm1[3] * rectm1[4], comps[m].len),
         wmax |-> rectm1[3], hmax |-> rectm1[4], exc |-> "none"]

\* `x *= WIDTH / (maxx - minx)` and the three others, with a slip: the
\* numbers are left as they are.
rescale_nothing(rectangles) == rectangles

\* The rectangles rescaled to the window
rescale(rectangles) ==
    LET minx == CHOOSE x \in {rectangles[i][1] : i \in DOMAIN rectangles} :
                    \A i \in DOMAIN rectangles : x <= rectangles[i][1]
        miny == CHOOSE y \in {rectangles[i][2] : i \in DOMAIN rectangles} :
                    \A i \in DOMAIN rectangles : y <= rectangles[i][2]
        maxx == Largest({rectangles[i][1] + rectangles[i][3] : i \in DOMAIN rectangles})
        maxy == Largest({rectangles[i][2] + rectangles[i][4] : i \in DOMAIN rectangles})
    IN  [i \in DOMAIN rectangles |->
            <<RoundDiv(rectangles[i][1] * WIDTH, maxx - minx),
              RoundDiv(rectangles[i][2] * HEIGHT, maxy - miny),
              RoundDiv(rectangles[i][3] * WIDTH, maxx - minx),
              RoundDiv(rectangles[i][4] * HEIGHT, maxy - miny)>>]

\* The new coordinates, along one axis, of the nodes of a component that were
\* at the least and at the largest coordinate of the component (extent d),
\* in the rectangle that starts at x and is w wide
moved(x, w, d) ==
    IF d # 0
    THEN {x + 2 * NODE_RADIUS, x + 2 * NODE_RADIUS + (w - 4 * NODE_RADIUS)}
    ELSE {x + w \div 2}

\* `components.sort(key=len)` up to the rectangle of the largest component,
\* for the components of a graph that has nodes
SortComponents ==
    /\ pack = NoPacking
    /\ \E m \in 1..MaxComponents : \E comps \in [1..m -> Components_placed] :
          /\ \A i \in 1..(m - 1) : comps[i].len <= comps[i + 1].len
          /\ pack' = packing_start(comps)
    /\ UNCHANGED <<graphState, pubState, call, published, observed, past, kk, drawer>>

\* One turn of the loop `for i, comp in enumerate(reversed(components[:-1]))`
PlaceRectangle ==
    /\ pack.pc = "packing"
    /\ pack.index >= 1
    /\ LET sz == rectangle_size(pack.area_size_ratio, pack.comps[pack.index])
           p == best_candidate(candidates(pack.rectangles, pack.index + 1, Len(pack.comps)),
                               sz, pack)
       IN  pack' = IF p = <<>> THEN [pack EXCEPT !.pc = "raised", !.exc = "ValueError"]
                   ELSE [pack EXCEPT !.index = @ - 1,
                                     !.rectangles = MapSet(@, pack.index,
                                                           <<p[1], p[2], sz[1], sz[2]>>)]
    /\ UNCHANGED <<graphState, pubState, call, published, observed, past, kk, drawer>>

\* The loop that rescales the rectangles
Rescale ==
    /\ pack.pc = "packing"
    /\ pack.index = 0
    /\ pack' = [pack EXCEPT !.pc = "rescaled", !.rectangles = rescale(@)]
    /\ UNCHANGED <<graphState, pubState, call, published, observed, past, kk, drawer>>

\* The loop that moves the nodes of each component into its rectangle, up to
\* `return positions`.  xs and ys hold the new coordinates of the nodes that
\* were at the ends of the component.
MoveNodes ==
    /\ pack.pc = "rescaled"
    /\ pack' = [pc |-> "returned", comps |-> pack.comps, rectangles |-> pack.rectangles,
                xs |-> [i \in DOMAIN pack.rectangles |->
                          moved(pack.rectangles[i][1], pack.rectangles[i][3], pack.comps[i].dx)],
                ys |-> [i \in DOMAIN pack.rectangles |->
                          moved(pack.rectangles[i][2], pack.rectangles[i][4], pack.comps[i].dy)]]
    /\ UNCHANGED <<graphState, pubState, call, published, observed, past, kk, drawer>>

NextPacking == SortComponents \/ PlaceRectangle \/ Rescale \/ MoveNodes

SpecPacking == Init /\ [][NextPacking]_vars

----------------------------------------------------------------------------
\* Graphs that are built, subscribed to and collected during the run

\* Nothing is built yet
InitPub ==
    /\ EmptyGraphs
    /\ ident = [g \in Graphs |-> Unbuilt]
    /\ subscribed = {}

\* g = UndirectedGraph() or g = DirectedGraph(): the new object gets an
\* address that no live object has.
NewGraph ==
    /\ call = NoCall
    /\ \E g \in Graphs :
          /\ ident[g] = Unbuilt
          /\ \E a \in Addresses \ {ident[h].address : h \in {x \in Graphs : alive(x)}} :
                ident' = [ident EXCEPT ![g] = Live(a)]
    /\ UNCHANGED <<graphState, call, published, observed, subscribed>>
    /\ UNCHANGED extras

\* The program drops its last reference to g and the object is collected.
\* The subscriptions stay: pubsub knows topics, not graphs.
Collect ==
    /\ call = NoCall
    /\ \E g \in Graphs : alive(g) /\ ident' = [ident EXCEPT ![g] = Collected]
    /\ UNCHANGED <<graphState, call, published, observed, subscribed>>
    /\ UNCHANGED extras

\* GraphDrawer.__init_pub: a callback for each kind of message of the graph g
Subscribe ==
    /\ call = NoCall
    /\ \E g \in Graphs :
          /\ alive(g)
          /\ subscribed' = subscribed \cup
                {[topic |-> topic_name(g, k), graph |-> g, kind |-> k] : k \in Kinds}
    /\ UNCHANGED <<graphState, call, published, observed, ident>>
    /\ UNCHANGED extras

\* pub.sendMessage: the callbacks that the messages of the call have run, each
\* with the message it was given
Deliveries ==
    {d \in [sub : subscribed, msg : {published[i] : i \in 1..Len(published)}] :
        d.sub.topic = topic_name(d.msg.graph, d.msg.topic)}

NextPub ==
    NewGraph \/ Collect \/ Subscribe \/ AddNode \/ RemoveNode \/ AddLink \/ RemoveLink \/ Continue

SpecPub == InitPub /\ [][NextPub]_vars

----------------------------------------------------------------------------
\* Breadth-first search

\* The keys of the dict m in the order Python iterates over them, which is the
\* order of their insertion.  The dicts of the adjacency map a neighbor to the
\* link that was built when the key was inserted, and links are numbered in
\* the order of their creation: the keys come by increasing link.
RECURSIVE keys(_)
keys(m) ==
    IF DOMAIN m = {} THEN <<>>
    ELSE LET x == CHOOSE x \in DOMAIN m : \A y \in DOMAIN m : m[x] <= m[y]
         IN  <<x>> \o keys(MapDel(m, x))

\* The members of the set S in the order Python iterates over them, which
\* depends on the hash of the members, here their addresses: by increasing
\* ord, where ord is any ranking of the nodes.
RECURSIVE set_iter(_, _)
set_iter(S, ord) ==
    IF S = {} THEN <<>>
    ELSE LET x == CHOOSE x \in S : \A y \in S : ord[x] <= ord[y]
         IN  <<x>> \o set_iter(S \ {x}, ord)

\* The rankings of the nodes built so far
Rankings == {r \in [CreatedNodes -> CreatedNodes] : \A x, y \in CreatedNodes : r[x] = r[y] => x = y}

\* UndirectedNode.neighbors and DirectedNode.neighbors, as the list of the
\* nodes that the iterator gives
neighbors_iter(u, ord) ==
    IF directed(graphOf[u]) THEN set_iter(neighbors[u], ord) ELSE keys(edges[u])

\* `if v not in dist or dist[v] > dist[u] + 1: dist[v] = dist[u] + 1` with a
\* slip: the test is left out.
bfs_update_without_test(dist, u, v) == MapSet(dist, v, dist[u] + 1)

\* `if v not in dist or dist[v] > dist[u] + 1: dist[v] = dist[u] + 1`
bfs_update(dist, u, v) ==
    IF v \notin DOMAIN dist \/ dist[v] > dist[u] + 1
    THEN MapSet(dist, v, dist[u] + 1)
    ELSE dist

\* The body of `for v in u.neighbors`, for the neighbors ns still to come;
\* st holds the local variables to_visit, visited and dist.
RECURSIVE bfs_for(_, _, _)
bfs_for(ns, u, st) ==
    IF ns = <<>> THEN st
    ELSE IF Head(ns) \in st.visited THEN bfs_for(Tail(ns), u, st)
    ELSE bfs_for(Tail(ns), u,
                 [to_visit |-> Append(st.to_visit, Head(ns)),
                  visited |-> st.visited,
                  dist |-> bfs_update(st.dist, u, Head(ns))])

\* The loop `while len(to_visit) != 0`: u = to_visit.pop(0), visited.add(u),
\* then the for loop
RECURSIVE bfs_while(_, _)
bfs_while(st, ord) ==
    IF st.to_visit = <<>> THEN st.dist
    ELSE bfs_while(bfs_for(neighbors_iter(Head(st.to_visit), ord), Head(st.to_visit),
                           [to_visit |-> Tail(st.to_visit),
                            visited |-> st.visited \cup {Head(st.to_visit)},
                            dist |-> st.dist]),
                   ord)

\* breadth_first_search_distances(g, v) and GraphDrawer's _breadth_first_search(g, v):
\* the dict returned for the node v, as a map from nodes to distances
breadth_first_search_distances(v, ord) ==
    bfs_while([to_visit |-> <<v>>, visited |-> {}, dist |-> MapSet(EmptyMap, v, 0)], ord)

\* The value returned to the caller: a dict
Dict(d) == [kind |-> "dict", id |-> 0, items |-> d]

\* The nodes of the list _Graph.__nodes of g
nodes_of(g) == {nodes[g][i] : i \in 1..Len(nodes[g])}

\* The value returned to the caller: a list
List(q) == [kind |-> "list", id |-> 0, items |-> q]

\* `for u in g: if u not in visited: break`: the first node of the list that
\* is not visited, and the last node of the list when every node is visited
first_unvisited(g, visited) ==
    LET free == SelectSeq(nodes[g], LAMBDA u : u \notin visited)
    IN  IF free # <<>> THEN Head(free) ELSE nodes[g][Len(nodes[g])]

\* `visited.update(comp)` with a slip: only the node the search started from
\* is marked.
visited_update_start_only(visited, u, comp) == visited \cup {u}

\* `visited.update(comp)`
visited_update(visited, u, comp) == visited \cup {comp[i] : i \in 1..Len(comp)}

\* The loop `while len(visited) != len(g)` of _connected_components
RECURSIVE components_while(_, _, _, _)
components_while(g, visited, comps, ord) ==
    IF Cardinality(visited) = Len(nodes[g]) THEN comps
    ELSE LET u == first_unvisited(g, visited)
             dists == breadth_first_search_distances(u, ord)
             comp == SelectSeq(nodes[g], LAMBDA v : v \in DOMAIN dists)
         IN  components_while(g, visited_update(visited, u, comp), Append(comps, comp), ord)

\* _connected_components(g): the list of the components, each the tuple of
\* its nodes
connected_components(g, ord) ==
    IF Len(nodes[g]) = 0 THEN <<>> ELSE components_while(g, {}, <<>>, ord)

\* `max(dists[u][v] for u in self.__graph for v in self.__graph if v in dists[u])`
largest_distance(g, ord) ==
    Largest(UNION {LET dists == breadth_first_search_distances(u, ord)
                   IN  {dists[v] : v \in {w \in nodes_of(g) : w \in DOMAIN dists}}
                   : u \in nodes_of(g)})

\* A position of a node, whose coordinates the model does not keep
Point2 == "Point2"

\* GraphDrawer.place_nodes with the default algorithm, for a drawer whose
\* node items are those of the nodes of g.  The graph with no node returns at
\* once.  Otherwise l = l0 / max(...) divides by the largest distance, and the
\* derivatives of place_component divide by the distance between the
\* positions of two nodes of a component (coincide: two of them are at the
\* same point); ret is the dict of positions that the algorithm has built
\* when the call ends, None when there is none.
place_nodes(g, ord, coincide) ==
    IF Len(nodes[g]) = 0
    THEN Outcome("place_nodes", g, <<>>, "none", None, None)
    ELSE IF largest_distance(g, ord) = 0
    THEN Outcome("place_nodes", g, <<>>, "ZeroDivisionError", None, None)
    ELSE IF coincide
    THEN Outcome("place_nodes", g, <<>>, "ZeroDivisionError", None, None)
    ELSE Outcome("place_nodes", g, <<>>, "none",
                 Dict([u \in nodes_of(g) |-> Point2]), None)

\* The undirected graphs on which the search is run have at most MaxBfsNodes
\* nodes and MaxBfsEdges edges.
MaxBfsNodes == 5
MaxBfsEdges == 4
BfsNodeIds == 1..MaxBfsNodes

\* The lists of distinct edges that add_edge can have built, in the order of
\* their creation, between the nodes 1..n.  The search never reads the index
\* of a node nor which extremity of an edge comes first, so only one naming of
\* the nodes is drawn for each shape: the nodes are numbered in the order in
\* which the edges first reach them (any other graph is one of these with its
\* nodes renamed), and the nodes that no edge reaches come last.
EdgeLists(n) ==
    LET Pairs == {p \in (1..n) \X (1..n) : p[1] < p[2]}
    IN  UNION {{es \in [1..m -> Pairs] :
                   /\ \A i, j \in 1..m : i # j => es[i] # es[j]
                   /\ \A i \in 1..m :
                        LET before == Largest(UNION {{es[j][1], es[j][2]} : j \in 1..(i - 1)})
                        IN  /\ es[i][1] <= before + 1
                            /\ es[i][2] <= Largest({before, es[i][1]}) + 1}
               : m \in 0..MaxBfsEdges}

\* The edges es with the nodes 1..n numbered backwards, so that the nodes
\* that no edge reaches come first in the list of the nodes
Mirror(n, es) == [k \in 1..Len(es) |-> <<n + 1 - es[k][2], n + 1 - es[k][1]>>]

\* The graph g after n calls of add_node and the calls of add_edge that built es
Built(g, n, es) ==
    /\ nodes = [h \in Graphs |-> IF h = g THEN [i \in 1..n |-> i] ELSE <<>>]
    /\ links = [h \in Graphs |-> IF h = g THEN [k \in 1..Len(es) |-> k] ELSE <<>>]
    /\ index = n + 1
    /\ graphOf = [i \in 1..n |-> g]
    /\ extremities = es
    /\ edges = [x \in BfsNodeIds |->
                  [y \in {z \in 1..n : \E k \in 1..Len(es) : {es[k][1], es[k][2]} = {x, z}} |->
                      CHOOSE k \in 1..Len(es) : {es[k][1], es[k][2]} = {x, y}]]
    /\ neighbors = [x \in BfsNodeIds |-> {}]
    /\ input_arcs = [x \in BfsNodeIds |-> EmptyMap]
    /\ output_arcs = [x \in BfsNodeIds |-> EmptyMap]
    /\ call = NoCall
    /\ published = <<>>
    /\ observed = <<>>
    /\ ident = [h \in Graphs |-> IF h = g THEN Live(1) ELSE Unbuilt]
    /\ subscribed = {}
    /\ NoExtras

\* An undirected graph with any edges, or a directed graph, which has nodes
\* only since no call of add_arc builds an arc
InitBFS ==
    \E n \in 0..MaxBfsNodes :
        \/ \E es \in EdgeLists(n) : Built("ug", n, es) \/ Built("ug", n, Mirror(n, es))
        \/ Built("dg", n, <<>>)

\* dist = breadth_first_search_distances(g, v) for a node v of the graph
Distances ==
    /\ call = NoCall
    /\ \E g \in Graphs : \E v \in CreatedNodes :
          /\ contain_node(g, Node(v))
          /\ \E ord \in (IF directed(g) THEN Rankings ELSE {[x \in CreatedNodes |-> x]}) :
                call' = Outcome("breadth_first_search_distances", g, <<Node(v)>>, "none",
                                Dict(breadth_first_search_distances(v, ord)), None)
    /\ published' = <<>>
    /\ observed' = <<>>
    /\ UNCHANGED graphState
    /\ UNCHANGED pubState
    /\ UNCHANGED extras

\* comps = _connected_components(g)
Components ==
    /\ call = NoCall
    /\ \E g \in Graphs :
          /\ alive(g)
          /\ \E ord \in (IF directed(g) THEN Rankings ELSE {[x \in CreatedNodes |-> x]}) :
                call' = Outcome("connected_components", g, <<>>, "none",
                                List(connected_components(g, ord)), None)
    /\ published' = <<>>
    /\ observed' = <<>>
    /\ UNCHANGED graphState
    /\ UNCHANGED pubState
    /\ UNCHANGED extras

\* drawer.place_nodes() for the drawer of g
PlaceNodes ==
    /\ call = NoCall
    /\ \E g \in Graphs :
          /\ alive(g)
          /\ \E ord \in (IF directed(g) THEN Rankings ELSE {[x \in CreatedNodes |-> x]}) :
             \E coincide \in BOOLEAN :
                call' = place_nodes(g, ord, coincide)
    /\ published' = <<>>
    /\ observed' = <<>>
    /\ UNCHANGED graphState
    /\ UNCHANGED pubState
    /\ UNCHANGED extras

NextBFS == Distances \/ Components \/ PlaceNodes \/ Continue

SpecBFS == InitBFS /\ [][NextBFS]_vars

----------------------------------------------------------------------------
\* A GraphDrawer built on one of the graphs

\* The callback that pubsub runs in the drawer d for the message m:
\* __add_node, __add_arc, __remove_node or __remove_arc, each of which
\* redraws when draw is true and gives up silently on a KeyError.  Only the
\* messages of the topics of the graph of the drawer reach it.  ext holds
\* the extremities of the links when the callback runs.
handle(d, m, ext) ==
    LET drawn == IF m.draw THEN d.redraws + 1 ELSE d.redraws
    IN  IF topic_name(m.graph, m.topic) # topic_name(d.graph, m.topic) THEN d
        ELSE IF m.topic = "add_node"
        THEN [d EXCEPT !.nodeitems = @ \cup {m.arg.id}, !.redraws = drawn]
        ELSE IF m.topic = "add_arc"
        THEN IF {ext[m.arg.id][1], ext[m.arg.id][2]} \subseteq d.nodeitems
             THEN [d EXCEPT !.arcitems = @ \cup {m.arg.id}, !.redraws = drawn]
             ELSE d
        ELSE IF m.topic = "remove_node"
        THEN IF m.arg.id \in d.nodeitems
             THEN [d EXCEPT !.nodeitems = @ \ {m.arg.id}, !.redraws = drawn]
             ELSE d
        ELSE IF m.arg.id \in d.arcitems
             THEN [d EXCEPT !.arcitems = @ \ {m.arg.id}, !.redraws = drawn]
             ELSE d

\* The drawer after the messages msgs, in the order they were sent
RECURSIVE deliver(_, _, _)
deliver(d, msgs, ext) ==
    IF msgs = <<>> THEN d ELSE deliver(handle(d, Head(msgs), ext), Tail(msgs), ext)

\* GraphDrawer.__init__: an item for each node of graph.nodes, then for each
\* link of graph.links whose two extremities have an item (__add_arc gives up
\* on the KeyError otherwise), then one redraw
BuildDrawer ==
    /\ call = NoCall
    /\ ~drawer.built
    /\ \E g \in Graphs :
          /\ alive(g)
          /\ drawer' = [built |-> TRUE, graph |-> g, fresh |-> TRUE, redraws |-> 1,
                        nodeitems |-> nodes_of(g),
                        arcitems |-> {k \in {links[g][i] : i \in 1..Len(links[g])} :
                                         {extremities[k][1], extremities[k][2]}
                                             \subseteq nodes_of(g)}]
    /\ UNCHANGED <<graphState, pubState, call, published, observed, past, kk, pack>>

\* The calls of the public API while the drawer listens: the callbacks of the
\* drawer run inside pub.sendMessage, before the call returns.  redraws counts
\* the redraws of the call.
DrawnAddNode ==
    /\ call = NoCall /\ drawer.built
    /\ \E g \in Graphs : alive(g) /\ add_node(g)
    /\ drawer' = deliver([drawer EXCEPT !.fresh = FALSE, !.redraws = 0], published', extremities')
    /\ UNCHANGED <<pubState, past, kk, pack>>

DrawnRemoveNode ==
    /\ call = NoCall /\ drawer.built
    /\ \E g \in Graphs : alive(g) /\ \E v \in Values : remove_node(g, v)
    /\ drawer' = deliver([drawer EXCEPT !.fresh = FALSE, !.redraws = 0], published', extremities')
    /\ UNCHANGED <<pubState, past, kk, pack>>

DrawnAddLink ==
    /\ call = NoCall /\ drawer.built
    /\ \E g \in Graphs : alive(g) /\ \E u, v \in Values : add_link(g, u, v)
    /\ drawer' = deliver([drawer EXCEPT !.fresh = FALSE, !.redraws = 0], published', extremities')
    /\ UNCHANGED <<pubState, past, kk, pack>>

DrawnRemoveLink ==
    /\ call = NoCall /\ drawer.built
    /\ \E g \in Graphs : alive(g) /\ \E l \in Values : remove_link(g, l)
    /\ drawer' = deliver([drawer EXCEPT !.fresh = FALSE, !.redraws = 0], published', extremities')
    /\ UNCHANGED <<pubState, past, kk, pack>>

\* The drawer is built on a graph that the program has already worked on, or
\* on a new one
NextDrawer ==
    \/ ~drawer.built /\ (AddNode \/ RemoveNode \/ AddLink \/ RemoveLink)
    \/ BuildDrawer \/ DrawnAddNode \/ DrawnRemoveNode \/ DrawnAddLink \/ DrawnRemoveLink
    \/ Continue

SpecDrawer == Init /\ [][NextDrawer]_vars

----------------------------------------------------------------------------
\* Vocabulary of the properties

\* The links in the link collection of g
LiveLinks(g) == {links[g][i] : i \in 1..Len(links[g])}

\* The nodes in the node collection of g
LiveNodes(g) == {nodes[g][i] : i \in 1..Len(nodes[g])}

\* Link k joins the nodes a and b, in either order
Joins(k, a, b) == {extremities[k][1], extremities[k][2]} = {a, b}

\* The nodes built by undirected graphs
UndirectedNodes == {n \in CreatedNodes : ~directed(graphOf[n])}

\* The nodes built by directed graphs
DirectedNodes == {n \in CreatedNodes : directed(graphOf[n])}

\* The links of the link collection of g that have node n as an extremity
IncidentLinks(g, n) ==
    {k \in LiveLinks(g) : n \in {extremities[k][1], extremities[k][2]}}

\* The step is a call of op: the caller was idle and now looks at an outcome.
\* In a step formula the unprimed variables are the state the call was made in.
Calls(op) == call = NoCall /\ call'.op = op

\* u and v are two distinct nodes of the node collection of g
DistinctNodesOf(g, u, v) == contain_node(g, u) /\ contain_node(g, v) /\ u # v

\* The call that has just returned or raised
Returned(op) == call.op = op /\ call.exc = "none"
Raised(op, exc) == call.op = op /\ call.exc = exc

----------------------------------------------------------------------------
\* C1. Simple-graph invariant: in every reachable state no link of a link
\* collection has equal extremities, no link is twice in a collection, an
\* undirected graph has at most one edge for each unordered pair of nodes and
\* a directed graph at most one arc for each ordered pair.
C1_SimpleGraph ==
    \A g \in Graphs :
        /\ \A i, j \in 1..Len(links[g]) : links[g][i] = links[g][j] => i = j
        /\ \A k \in LiveLinks(g) : extremities[k][1] # extremities[k][2]
        /\ \A k1, k2 \in LiveLinks(g) :
              k1 # k2 => IF directed(g)
                         THEN extremities[k1] # extremities[k2]
                         ELSE ~Joins(k1, extremities[k2][1], extremities[k2][2])

\* An undirected graph holds an edge and has just refused a second edge
\* between the same nodes, given in the other order.
C1_Witness ==
    /\ Raised("add_link", "LinkError")
    /\ ~directed(call.g)
    /\ Len(links[call.g]) = 1
    /\ \E k \in LiveLinks(call.g) :
          extremities[k] = <<call.args[2].id, call.args[1].id>>

\* C3. Undirected adjacency is symmetric and matches the link collection: for
\* all undirected nodes u and v, u.is_neighbor_of(v) iff v.is_neighbor_of(u)
\* iff an edge of the link collection joins u and v, and then
\* get_incident_edge returns that edge on both sides.  Both tests are true
\* right after add_edge(u, v) and false right after remove_edge.
C3_UndirectedAdjacency ==
    /\ \A u, v \in UndirectedNodes :
          LET joining == {k \in LiveLinks(graphOf[u]) : Joins(k, u, v)}
          IN  /\ is_neighbor_of(u, Node(v)) <=> is_neighbor_of(v, Node(u))
              /\ is_neighbor_of(u, Node(v)) <=> joining # {}
              /\ \A k \in joining : /\ get_incident_edge(u, Node(v)) = Link(k)
                                    /\ get_incident_edge(v, Node(u)) = Link(k)
    /\ Returned("add_link") /\ ~directed(call.g) =>
          /\ is_neighbor_of(call.args[1].id, call.args[2])
          /\ is_neighbor_of(call.args[2].id, call.args[1])
          /\ get_incident_edge(call.args[1].id, call.args[2]) = call.ret
          /\ get_incident_edge(call.args[2].id, call.args[1]) = call.ret
    /\ Returned("remove_link") /\ ~directed(call.g) =>
          LET k == call.args[1].id
          IN  /\ ~is_neighbor_of(extremities[k][1], Node(extremities[k][2]))
              /\ ~is_neighbor_of(extremities[k][2], Node(extremities[k][1]))

\* The second edge built between two nodes has just been removed, after the
\* first one was.
C3_Witness ==
    /\ Returned("remove_link")
    /\ ~directed(call.g)
    /\ call.args[1] = Link(2)
    /\ Joins(2, extremities[1][1], extremities[1][2])

----------------------------------------------------------------------------
\* C2. remove_node(v) on a node v of the graph with d incident links publishes
\* d link_removed messages with draw = false, each for another link incident
\* to v, then one node_removed message for v with draw = true, and nothing
\* else; the link count decreases by d and the node count by 1.
C2_RemoveNodeEvents ==
    [][ Calls("remove_node") /\ contain_node(call'.g, call'.args[1]) =>
          LET g == call'.g
              v == call'.args[1]
              inc == IncidentLinks(g, v.id)
              d == Cardinality(inc)
          IN  /\ Len(published') = d + 1
              /\ \A i \in 1..d : /\ published'[i].topic = "remove_arc"
                                 /\ published'[i].graph = g
                                 /\ published'[i].draw = FALSE
                                 /\ published'[i].arg \in {Link(k) : k \in inc}
              /\ \A i, j \in 1..d : published'[i].arg = published'[j].arg => i = j
              /\ published'[d + 1] = Message(g, "remove_node", v, TRUE)
              /\ Len(links'[g]) = Len(links[g]) - d
              /\ Len(nodes'[g]) = Len(nodes[g]) - 1
      ]_vars

\* C4. Directed adjacency matches the link collection: for all directed nodes
\* u and v, u.is_input_neighbor_of(v) iff v.is_output_neighbor_of(u) iff an arc
\* from u to v is in the link collection, and then u.get_output_arc(v) and
\* v.get_input_arc(u) return that arc; the output and input maps hold no arc
\* that is not in the link collection.  As the tests of the claim have it,
\* the arc that add_arc(u, v) is asked for between two distinct nodes of the
\* graph is in the graph once the call is over.
C4_DirectedAdjacency ==
    /\ \A u, v \in DirectedNodes :
          LET arcs == {k \in LiveLinks(graphOf[u]) : extremities[k] = <<u, v>>}
          IN  /\ is_input_neighbor_of(u, Node(v)) <=> is_output_neighbor_of(v, Node(u))
              /\ is_input_neighbor_of(u, Node(v)) <=> arcs # {}
              /\ \A k \in arcs : /\ get_output_arc(u, Node(v)) = Link(k)
                                 /\ get_input_arc(v, Node(u)) = Link(k)
              /\ MapValues(output_arcs[u]) \subseteq LiveLinks(graphOf[u])
              /\ MapValues(input_arcs[u]) \subseteq LiveLinks(graphOf[u])
    /\ /\ call.op = "add_link"
       /\ directed(call.g)
       /\ DistinctNodesOf(call.g, call.args[1], call.args[2])
       => /\ is_input_neighbor_of(call.args[1].id, call.args[2])
          /\ is_output_neighbor_of(call.args[2].id, call.args[1])
          /\ contain_link(call.g, get_output_arc(call.args[1].id, call.args[2]))

\* C5. Asymmetric persistence in directed graphs.  The scenario of the claim,
\* step by step: add_arc(u, v) between two distinct nodes of the graph that
\* have no arc from u to v builds that arc, whether or not the arc from v to u
\* is there; and when both arcs are there and remove_arc removes the arc from
\* u to v, u and v stay neighbors of each other, their numbers of neighbors
\* do not change, the arc from v to u stays in the graph and is what
\* u.get_incident_arc(v) returns, and u.is_input_neighbor_of(v) is false.
C5_AsymmetricPersistence ==
    [][ \A g \in DirectedGraphs : \A u, v \in NodeIds :
        /\ /\ Calls("add_link")
           /\ call'.g = g
           /\ call'.args = <<Node(u), Node(v)>>
           /\ DistinctNodesOf(g, Node(u), Node(v))
           /\ ~is_input_neighbor_of(u, Node(v))
           => /\ call'.exc = "none"
              /\ is_input_neighbor_of(u, Node(v))'
        /\ \A a \in LiveLinks(g) :
           /\ Calls("remove_link")
           /\ call'.g = g
           /\ call'.args = <<Link(a)>>
           /\ extremities[a] = <<u, v>>
           /\ is_input_neighbor_of(v, Node(u))
           => LET back == get_input_arc(u, Node(v))
              IN  /\ call'.exc = "none"
                  /\ directed_is_neighbor_of(u, Node(v))'
                  /\ directed_is_neighbor_of(v, Node(u))'
                  /\ neighbors'[u] = neighbors[u]
                  /\ neighbors'[v] = neighbors[v]
                  /\ contain_link(g, back)'
                  /\ get_input_arc(u, Node(v))' = back
                  /\ ~is_input_neighbor_of(u, Node(v))'
      ]_vars

\* C6. Duplicate links are rejected with the link that is there.  For two
\* distinct nodes u, v of an undirected graph, add_edge(u, v) raises LinkError
\* whenever an edge joins u and v, in whichever order, and the error carries
\* that edge.  For two distinct nodes u, v of a directed graph, add_arc(u, v)
\* raises LinkError exactly when an arc from u to v is there, the error
\* carries that arc, and add_arc(u, v) succeeds when there is none, also when
\* the arc from v to u is there.
C6_DuplicateRejected ==
    [][ Calls("add_link") /\ DistinctNodesOf(call'.g, call'.args[1], call'.args[2]) =>
          LET g == call'.g
              u == call'.args[1].id
              v == call'.args[2].id
              edge == {k \in LiveLinks(g) : Joins(k, u, v)}
              arc == {k \in LiveLinks(g) : extremities[k] = <<u, v>>}
          IN  IF directed(g)
              THEN /\ call'.exc = "LinkError" <=> arc # {}
                   /\ call'.exc = "LinkError" => call'.carried \in {Link(k) : k \in arc}
                   /\ arc = {} => call'.exc = "none"
              ELSE edge # {} => /\ call'.exc = "LinkError"
                                /\ call'.carried \in {Link(k) : k \in edge}
      ]_vars

\* C7. add_link(u, v) raises TypeError for every pair of arguments of which
\* at least one is not a node, whatever the other one is.
C7_TypeMismatch ==
    [][ /\ Calls("add_link")
        /\ ~IsNode(call'.args[1]) \/ ~IsNode(call'.args[2])
        => call'.exc = "TypeError"
      ]_vars

\* C8. add_link(u, v) raises NodeMembershipError whenever u and v are both
\* nodes and at least one of them is not in the node collection of the graph
\* (a node of another graph of either kind, or a node removed from the graph).
C8_NodeMembership ==
    [][ /\ Calls("add_link")
        /\ IsNode(call'.args[1]) /\ IsNode(call'.args[2])
        /\ ~contain_node(call'.g, call'.args[1]) \/ ~contain_node(call'.g, call'.args[2])
        => call'.exc = "NodeMembershipError"
      ]_vars

\* add_link(u, v) has just raised NodeMembershipError for a node u of the graph
\* and a node v that was removed from the graph.
C8_Witness ==
    /\ Raised("add_link", "NodeMembershipError")
    /\ contain_node(call.g, call.args[1])
    /\ IsNode(call.args[2])
    /\ graphOf[call.args[2].id] = call.g
    /\ ~contain_node(call.g, call.args[2])

\* C9. add_link(u, u) for a node u of the graph raises GraphError, in directed
\* and undirected graphs alike, and builds no link.
C9_NoLoop ==
    [][ /\ Calls("add_link")
        /\ call'.args[1] = call'.args[2]
        /\ contain_node(call'.g, call'.args[1])
        => /\ call'.exc = "GraphError"
           /\ UNCHANGED <<links, extremities, edges, neighbors, input_arcs, output_arcs>>
      ]_vars

\* add_arc(u, u) has just raised GraphError in a directed graph.
C9_Witness ==
    /\ Raised("add_link", "GraphError")
    /\ directed(call.g)
    /\ call.args[1] = call.args[2]
    /\ contain_node(call.g, call.args[1])

\* C10. remove_node(v) raises TypeError if v is not a node and
\* NodeMembershipError if v is a node that is not in the node collection of
\* the graph; it succeeds on a node of the graph, so that removing the same
\* node twice succeeds the first time and raises NodeMembershipError the
\* second time.
C10_RemoveNodeErrors ==
    [][ \A g \in Graphs : \A v \in Values :
          Calls("remove_node") /\ call'.g = g /\ call'.args = <<v>> =>
              /\ ~IsNode(v) => call'.exc = "TypeError"
              /\ IsNode(v) /\ ~contain_node(g, v) => call'.exc = "NodeMembershipError"
              /\ contain_node(g, v) => /\ call'.exc = "none"
                                       /\ ~contain_node(g, v)'
      ]_vars

----------------------------------------------------------------------------
\* C11. remove_link(l) raises TypeError if l is not a link and
\* LinkMembershipError if l is a link that is not in the link collection of
\* the graph: a link of another graph, a link that remove_link has removed,
\* or a link of the graph incident to a node that remove_node has taken out
\* of the graph, which the cascade of remove_node is to have removed.
C11_RemoveLinkErrors ==
    [][ \A g \in Graphs : \A l \in Values :
          Calls("remove_link") /\ call'.g = g /\ call'.args = <<l>> =>
              /\ ~IsLink(l) => call'.exc = "TypeError"
              /\ IsLink(l) /\ ~contain_link(g, l) => call'.exc = "LinkMembershipError"
              /\ /\ IsLink(l)
                 /\ linkGraph(l.id) = g
                 /\ \E i \in 1..2 : ~contain_node(g, Node(extremities[l.id][i]))
                 => call'.exc = "LinkMembershipError"
      ]_vars

\* C12. add_link(u, v) on two distinct nodes u, v of the graph with no such
\* link yet (no edge joining them in an undirected graph, no arc from u to v
\* in a directed graph) succeeds: it returns a new link with the extremities
\* (u, v) in that order, appends it at the end of the link collection of the
\* graph, whose length grows by 1, registers it in the adjacency maps of u
\* and v, leaves the node collections and the other link collections alone,
\* and publishes exactly one add_arc message carrying the link, with
\* draw = true.
C12_AddLinkSuccess ==
    [][ \A g \in Graphs : \A u, v \in NodeIds :
          /\ Calls("add_link")
          /\ call'.g = g
          /\ call'.args = <<Node(u), Node(v)>>
          /\ DistinctNodesOf(g, Node(u), Node(v))
          /\ IF directed(g)
             THEN \A k \in LiveLinks(g) : extremities[k] # <<u, v>>
             ELSE \A k \in LiveLinks(g) : ~Joins(k, u, v)
          => LET k == Len(extremities) + 1
             IN  /\ call'.exc = "none"
                 /\ call'.ret = Link(k)
                 /\ extremities' = Append(extremities, <<u, v>>)
                 /\ links' = [links EXCEPT ![g] = Append(@, k)]
                 /\ nodes' = nodes
                 /\ IF directed(g)
                    THEN /\ get_output_arc(u, Node(v))' = Link(k)
                         /\ get_input_arc(v, Node(u))' = Link(k)
                         /\ directed_is_neighbor_of(u, Node(v))'
                         /\ directed_is_neighbor_of(v, Node(u))'
                    ELSE /\ get_incident_edge(u, Node(v))' = Link(k)
                         /\ get_incident_edge(v, Node(u))' = Link(k)
                 /\ published' = <<Message(g, "add_arc", Link(k), TRUE)>>
      ]_vars

C15_RemoveNodeCascade ==
    [][ \A g \in Graphs : \A v \in NodeIds :
          /\ Calls("remove_node")
          /\ call'.g = g
          /\ call'.args = <<Node(v)>>
          /\ contain_node(g, Node(v))
          => /\ call'.exc = "none"
             /\ LiveLinks(g)' = LiveLinks(g) \ IncidentLinks(g, v)
             /\ \A h \in Graphs \ {g} : links'[h] = links[h]
             /\ \A n \in NodeIds :
                   /\ v \notin DOMAIN edges'[n]
                   /\ v \notin neighbors'[n]
                   /\ v \notin DOMAIN input_arcs'[n]
                   /\ v \notin DOMAIN output_arcs'[n]
             /\ edges'[v] = EmptyMap
             /\ neighbors'[v] = {}
             /\ input_arcs'[v] = EmptyMap
             /\ output_arcs'[v] = EmptyMap
             /\ \A n \in NodeIds \ {v} :
                   /\ edges'[n] = MapDel(edges[n], v)
                   /\ neighbors'[n] = neighbors[n] \ {v}
                   /\ input_arcs'[n] = MapDel(input_arcs[n], v)
                   /\ output_arcs'[n] = MapDel(output_arcs[n], v)
      ]_vars

\* C16. Link lifetime: in every reachable state the two extremities of every
\* link of a link collection are nodes of the node collection of the same
\* graph; no link in a graph has an extremity that was removed from the graph
\* or that is a node of another graph.
C16_LinkLifetime ==
    \A g \in Graphs : \A k \in LiveLinks(g) :
        /\ contain_node(g, Node(extremities[k][1]))
        /\ contain_node(g, Node(extremities[k][2]))

\* C17. Neighbors are counted once in directed graphs: in every reachable
\* state, for every directed node u, the neighbor set of u is the union of
\* the key sets of its input and output maps, the number of incident arcs of
\* u is nb_input_neighbors(u) + nb_output_neighbors(u), and nb_neighbors(u)
\* differs from the number of incident arcs iff some node has arcs in both
\* directions with u.  As in the cycle of the claim, every arc u -> v asked
\* of add_arc between two distinct nodes of the graph counts: once the call
\* is over v is an output neighbor and a neighbor of u, u an input neighbor
\* and a neighbor of v, and the arc is among the incident arcs of both.
C17_NeighborDeduplication ==
    /\ \A u \in DirectedNodes :
          /\ neighbors[u] = (DOMAIN input_arcs[u]) \cup (DOMAIN output_arcs[u])
          /\ Len(incident_arcs(u)) = nb_input_neighbors(u) + nb_output_neighbors(u)
          /\ nb_neighbors(u) # Len(incident_arcs(u))
                <=> (DOMAIN input_arcs[u]) \cap (DOMAIN output_arcs[u]) # {}
    /\ /\ call.op = "add_link"
       /\ directed(call.g)
       /\ DistinctNodesOf(call.g, call.args[1], call.args[2])
       => LET u == call.args[1].id
              v == call.args[2].id
          IN  /\ nb_output_neighbors(u) >= 1
              /\ nb_input_neighbors(v) >= 1
              /\ v \in neighbors[u]
              /\ u \in neighbors[v]
              /\ \E i \in 1..Len(incident_arcs(u)) :
                    InList(incident_arcs(v), incident_arcs(u)[i])

\* C18. For a directed node u and a neighbor v of u, u.get_incident_arc(v)
\* does not fail; it returns the arc from v to u when there is one (also when
\* the arc from u to v is there too) and the arc from u to v otherwise.  A
\* node is a neighbor of the other as soon as add_arc was asked for an arc
\* between them: once add_arc(u, v) on two distinct nodes of the graph is
\* over, get_incident_arc succeeds on both sides and v.get_incident_arc(u) is
\* the arc from u to v.
C18_IncidentArcPriority ==
    /\ \A u \in DirectedNodes : \A v \in neighbors[u] :
          LET r == DirectedNode_get_incident_arc(u, Node(v))
          IN  /\ r.exc = "none"
              /\ r.ret = IF v \in DOMAIN input_arcs[u]
                         THEN Link(input_arcs[u][v])
                         ELSE Link(output_arcs[u][v])
    /\ /\ call.op = "add_link"
       /\ directed(call.g)
       /\ DistinctNodesOf(call.g, call.args[1], call.args[2])
       => LET u == call.args[1]
              v == call.args[2]
              ru == DirectedNode_get_incident_arc(u.id, v)
              rv == DirectedNode_get_incident_arc(v.id, u)
          IN  /\ ru.exc = "none"
              /\ rv.exc = "none"
              /\ IsArc(rv.ret)
              /\ extremities[rv.ret.id] = <<u.id, v.id>>

\* C19. For a directed node u, get_input_arc(v), get_output_arc(v) and
\* get_incident_arc(v) raise TypeError when v is not a node of a directed
\* graph, and NodeError when v is a directed node that is not a neighbor of u
\* of the kind asked for (no arc from v to u for get_input_arc, no arc from u
\* to v for get_output_arc, neither for get_incident_arc).
C19_DirectedLookupErrors ==
    \A u \in DirectedNodes : \A v \in Values :
        LET rin == DirectedNode_get_input_arc(u, v)
            rout == DirectedNode_get_output_arc(u, v)
            rinc == DirectedNode_get_incident_arc(u, v)
        IN  IF ~IsDirectedNode(v)
            THEN /\ rin.exc = "TypeError"
                 /\ rout.exc = "TypeError"
                 /\ rinc.exc = "TypeError"
            ELSE /\ ~is_output_neighbor_of(u, v) => rin.exc = "NodeError"
                 /\ ~is_input_neighbor_of(u, v) => rout.exc = "NodeError"
                 /\ ~directed_is_neighbor_of(u, v) => rinc.exc = "NodeError"

\* C20. For an undirected node u, get_incident_edge(v) raises TypeError when
\* v is not a node of an undirected graph, and NodeError when v is an
\* undirected node that is not a neighbor of u.
C20_UndirectedLookupErrors ==
    \A u \in UndirectedNodes : \A v \in Values :
        LET r == UndirectedNode_get_incident_edge(u, v)
        IN  IF ~IsUndirectedNode(v)
            THEN r.exc = "TypeError"
            ELSE ~is_neighbor_of(u, v) => r.exc = "NodeError"

----------------------------------------------------------------------------
\* C21. For a link l with the extremities (a, b), l.neighbor(a) = b and
\* l.neighbor(b) = a; l.neighbor(x) raises TypeError when x is not a node and
\* LinkError when x is a node that is not an extremity of l.
C21_LinkNeighbor ==
    \A k \in CreatedLinks : \A x \in Values :
        LET a == extremities[k][1]
            b == extremities[k][2]
            r == Link_neighbor(k, x)
        IN  /\ x = Node(a) => r.exc = "none" /\ r.ret = Node(b)
            /\ x = Node(b) => r.exc = "none" /\ r.ret = Node(a)
            /\ ~IsNode(x) => r.exc = "TypeError"
            /\ IsNode(x) /\ x.id \notin {a, b} => r.exc = "LinkError"

\* C22. Incidence follows the life of the link.  While a link l with the
\* extremities (a, b) is in the link collection of its graph,
\* w.is_incident_to(l) is true exactly for w in {a, b}, and for an arc
\* is_output_arc(l) holds only at a and is_input_arc(l) only at b.  Once l is
\* out of the link collection, is_incident_to(l), is_input_arc(l) and
\* is_output_arc(l) are false at every node, a and b included, and l is in
\* the incident links of no node.
C22_IncidenceFollowsLife ==
    \A k \in CreatedLinks : \A w \in CreatedNodes :
        LET l == Link(k)
            a == extremities[k][1]
            b == extremities[k][2]
            live == contain_link(linkGraph(k), l)
            inc == IF directed(graphOf[w])
                   THEN DirectedNode_is_incident_to(w, l)
                   ELSE UndirectedNode_is_incident_to(w, l)
        IN  /\ inc.exc = "none"
            /\ IF live
               THEN /\ inc.ret <=> w \in {a, b}
                    /\ IsArc(l) /\ directed(graphOf[w]) =>
                          /\ is_output_arc(w, l) <=> w = a
                          /\ is_input_arc(w, l) <=> w = b
               ELSE /\ ~inc.ret
                    /\ directed(graphOf[w]) => ~is_input_arc(w, l) /\ ~is_output_arc(w, l)
                    /\ k \notin incident_edges(w)
                    /\ ~InList(incident_arcs(w), k)

\* C23. Membership test: in every reachable state, for every graph g,
\* directed or not, `x in g` is true iff x is a node of the node collection
\* of g or a link of the link collection of g; it is false for the nodes and
\* links of the other graphs, for removed ones and for the values that are
\* neither nodes nor links.
C23_MembershipTest ==
    \A g \in Graphs : \A x \in Values :
        contains(g, x) <=> contain_node(g, x) \/ contain_link(g, x)

C25_NodeIdentity ==
    /\ [](\A g, h \in Graphs :
            \A i \in 1..Len(nodes[g]) : \A j \in 1..Len(nodes[h]) :
               /\ nodes[g][i] \in CreatedNodes
               /\ nodes[g][i] = nodes[h][j] => g = h /\ i = j)
    /\ [][ /\ IF Calls("add_node")
              THEN /\ call'.ret = Node(index)
                   /\ \A n \in CreatedNodes : n < call'.ret.id
                   /\ index' = index + 1
                   /\ CreatedNodes' = CreatedNodes \cup {call'.ret.id}
              ELSE index' = index
           /\ \A n \in CreatedNodes : graphOf'[n] = graphOf[n]
         ]_vars

\* add_node has just built a node in a graph after a node with a smaller
\* index was removed from that graph.
C25_Witness ==
    /\ Returned("add_node")
    /\ \E n \in CreatedNodes :
          /\ n < call.ret.id
          /\ graphOf[n] = call.g
          /\ ~contain_node(call.g, Node(n))

----------------------------------------------------------------------------
\* The links that the adjacency of the node n holds in the observed graphs s
AdjacencyIn(s, n) ==
    MapValues(s.edges[n]) \cup MapValues(s.input_arcs[n]) \cup MapValues(s.output_arcs[n])

\* The members of the list q
ListSet(q) == {q[i] : i \in 1..Len(q)}

----------------------------------------------------------------------------
\* C27. Events are scoped to one graph and one kind: a callback subscribed to
\* the messages of kind k of the graph g runs only for a message of kind k
\* sent by a mutation of g, never for a mutation of another graph, be it
\* built before or after g.
C27_EventScope ==
    \A d \in Deliveries : d.msg.graph = d.sub.graph /\ d.msg.topic = d.sub.kind

----------------------------------------------------------------------------
\* The neighbor relation: the nodes that node u has as neighbors
Adjacent(u) == IF directed(graphOf[u]) THEN neighbors[u] ELSE DOMAIN edges[u]

\* The nodes that a path of at most k links joins to the node s
RECURSIVE Within(_, _)
Within(s, k) ==
    IF k = 0 THEN {s}
    ELSE LET W == Within(s, k - 1) IN W \cup UNION {Adjacent(u) : u \in W}

\* The nodes reachable from s, and the number of links of a shortest path
\* from s to the reachable node t
Reachable(s) == Within(s, Cardinality(CreatedNodes))
ShortestLength(s, t) ==
    CHOOSE k \in 0..Cardinality(CreatedNodes) :
        t \in Within(s, k) /\ \A j \in 0..(k - 1) : t \notin Within(s, j)

\* The graph is the path 1 - 2 - 3 - 4 - 5
IsPathOfFive ==
    /\ index = 6
    /\ \A u \in 1..5 : Adjacent(u) = {v \in 1..5 : v = u - 1 \/ v = u + 1}

\* The search has returned the dict d for the source s
SearchReturned(s, d) ==
    /\ Returned("breadth_first_search_distances")
    /\ call.args = <<Node(s)>>
    /\ call.ret = Dict(d)

\* C28. Breadth-first distances: for every graph and every node s of it the
\* search ends and returns a dict, and
\* the dict it returns has as keys exactly the nodes reachable from s over
\* the neighbor relation, 0 for s and for every other key the number of links
\* of a shortest path from s; the unreachable nodes are not keys.  On the
\* path 1 - 2 - 3 - 4 - 5 the dict returned for node 1 is
\* {1: 0, 2: 1, 3: 2, 4: 3, 5: 4}.
C28_BreadthFirstDistances ==
    /\ call = NoCall =>
          \A g \in Graphs : \A v \in LiveNodes(g) :
              \A ord \in (IF directed(g) THEN Rankings ELSE {[x \in CreatedNodes |-> x]}) :
                  v \in DOMAIN breadth_first_search_distances(v, ord)
    /\ Returned("breadth_first_search_distances") =>
          LET s == call.args[1].id
              d == call.ret.items
          IN  /\ DOMAIN d = Reachable(s)
              /\ d[s] = 0
              /\ \A t \in DOMAIN d : d[t] = ShortestLength(s, t)
              /\ (IsPathOfFive /\ s = 1) => d = [t \in 1..5 |-> t - 1]

\* The search from the end 1 of the path 1 - 2 - 3 - 4 - 5 has returned
\* {1: 0, 2: 1, 3: 2, 4: 3, 5: 4}.
C28_Witness ==
    /\ IsPathOfFive
    /\ SearchReturned(1, [t \in 1..5 |-> t - 1])

\* C29. On an undirected graph the breadth-first distances are symmetric: for
\* the dict returned for a node a and every node b of the graph, b is a key
\* of it exactly when a is a key of the dict returned for b, and then the two
\* distances are equal.
C29_SymmetricDistances ==
    (Returned("breadth_first_search_distances") /\ ~directed(call.g)) =>
        LET a == call.args[1].id
            da == call.ret.items
        IN  \A b \in LiveNodes(call.g) :
                LET db == breadth_first_search_distances(b, [x \in CreatedNodes |-> x])
                IN  /\ b \in DOMAIN da <=> a \in DOMAIN db
                    /\ b \in DOMAIN da => da[b] = db[a]

\* The search has returned for a node of an undirected graph a dict in which
\* some node is at distance 2 and some node of the graph is missing.
C29_Witness ==
    /\ Returned("breadth_first_search_distances")
    /\ ~directed(call.g)
    /\ \E b \in DOMAIN call.ret.items : call.ret.items[b] = 2
    /\ \E c \in LiveNodes(call.g) : c \notin DOMAIN call.ret.items

\* The nodes that a path of at most k live arcs of g, each taken in either
\* direction, joins to the node s
RECURSIVE WithinArcs(_, _, _)
WithinArcs(g, s, k) ==
    IF k = 0 THEN {s}
    ELSE LET W == WithinArcs(g, s, k - 1)
         IN  W \cup {v \in CreatedNodes : \E u \in W : \E a \in LiveLinks(g) : u # v /\ Joins(a, u, v)}

\* C30. On a directed graph the search ignores the direction of the arcs: the
\* dict returned for a node s is the one of the breadth-first distances from
\* s in the undirected graph that has an edge between u and v whenever an arc
\* from u to v or from v to u is live.  In particular a node reached only
\* against the direction of the arcs is a key: once add_arc(u, v) on two
\* distinct nodes of the graph is over, the dict returned for v has u at
\* distance 1.
C30_DirectionIgnored ==
    /\ \A g \in DirectedGraphs : \A s \in LiveNodes(g) : \A ord \in Rankings :
          LET d == breadth_first_search_distances(s, ord)
              n == Cardinality(CreatedNodes)
          IN  /\ DOMAIN d = WithinArcs(g, s, n)
              /\ \A t \in DOMAIN d :
                    /\ t \in WithinArcs(g, s, d[t])
                    /\ \A j \in 0..(d[t] - 1) : t \notin WithinArcs(g, s, j)
    /\ /\ call.op = "add_link"
       /\ directed(call.g)
       /\ DistinctNodesOf(call.g, call.args[1], call.args[2])
       => \A ord \in Rankings :
             LET u == call.args[1].id
                 d == breadth_first_search_distances(call.args[2].id, ord)
             IN  u \in DOMAIN d /\ d[u] = 1

\* The five errors of the graph core: TypeMismatch, NodeMembership,
\* LinkMembership, GraphInvariant and LinkExists.
CoreErrors ==
    {"TypeError", "NodeMembershipError", "LinkMembershipError",
     "GraphError", "LinkError"}

\* C37. Whenever add_link, remove_link or remove_node fails with TypeError,
\* NodeMembershipError, LinkMembershipError, GraphError or LinkError, the
\* node collections, the link collections and the adjacency index of every
\* node are exactly as before the call, and no message is published.
C37_FailureChangesNothing ==
    [][ \A op \in {"add_link", "remove_link", "remove_node"} :
          Calls(op) /\ call'.exc \in CoreErrors
          => /\ UNCHANGED <<nodes, links, edges, neighbors,
                            input_arcs, output_arcs>>
             /\ published' = <<>> ]_vars

\* An edge is live, and add_link on its two extremities has just been
\* refused with LinkError while the edge and its adjacency entries stay.
C37_Witness ==
    /\ call # NoCall
    /\ call.op = "add_link"
    /\ call.exc = "LinkError"
    /\ published = <<>>
    /\ \E k \in LinkIds :
         /\ InList(links[call.g], k)
         /\ call.args = <<Node(extremities[k][1]), Node(extremities[k][2])>>
         /\ extremities[k][2] \in DOMAIN edges[extremities[k][1]]

ComponentsOf(comps, u) ==
    {i \in 1..Len(comps) : \E j \in 1..Len(comps[i]) : comps[i][j] = u}

\* C35. For every graph _connected_components ends, and the components it
\* returns are a partition of the nodes of the graph: every node of the
\* graph is in exactly one component, once, a component holds nodes of the
\* graph only, and two nodes are in the same component exactly when a path
\* over the neighbor relation, whatever the direction of the links, joins
\* them; the list is empty for a graph with no node.
C35_ComponentsPartition ==
    /\ call = NoCall =>
          \A g \in {h \in Graphs : alive(h)} :
              \A ord \in (IF directed(g) THEN Rankings ELSE {[x \in CreatedNodes |-> x]}) :
                  Len(connected_components(g, ord)) <= Len(nodes[g])
    /\ Returned("connected_components") =>
          LET comps == call.ret.items
              g == call.g
          IN  /\ \A u \in LiveNodes(g) : Cardinality(ComponentsOf(comps, u)) = 1
              /\ \A i \in 1..Len(comps) :
                    /\ comps[i] # <<>>
                    /\ \A j \in 1..Len(comps[i]) : comps[i][j] \in LiveNodes(g)
                    /\ \A j, k \in 1..Len(comps[i]) : comps[i][j] = comps[i][k] => j = k
              /\ \A u, v \in LiveNodes(g) :
                    ComponentsOf(comps, u) = ComponentsOf(comps, v) <=> v \in Reachable(u)
              /\ Len(nodes[g]) = 0 => comps = <<>>

\* The call has returned for a graph of five nodes three components: one of
\* three nodes, the edge of which is not all there is to join them, and two
\* of one node each.
C35_Witness ==
    /\ Returned("connected_components")
    /\ Len(nodes[call.g]) = 5
    /\ Len(call.ret.items) = 3
    /\ \E i \in 1..3 : Len(call.ret.items[i]) = 3
    /\ \E i, j \in 1..3 : i # j /\ Len(call.ret.items[i]) = 1 /\ Len(call.ret.items[j]) = 1

\* The call has returned the empty list for a graph with no node.
C35_WitnessEmpty ==
    /\ Returned("connected_components")
    /\ Len(nodes[call.g]) = 0
    /\ call.ret.items = <<>>

\* C31. The layout never raises: for every graph place_nodes ends without an
\* error, and for a graph that has nodes the algorithm has yielded a dict of
\* positions; so it is for the graph with no node, for the graph with one
\* node and for the graphs whose nodes are all isolated.
C31_LayoutNeverRaises ==
    (call # NoCall /\ call.op = "place_nodes") =>
        /\ call.exc = "none"
        /\ Len(nodes[call.g]) > 0 => call.ret # None /\ call.ret.kind = "dict"

\* C33. For a graph with no node place_nodes ends at once and no position is
\* yielded; for every graph that has nodes the dict of positions has exactly
\* the nodes of the graph as keys.
C33_LayoutDomain ==
    (call # NoCall /\ call.op = "place_nodes") =>
        IF Len(nodes[call.g]) = 0
        THEN call.exc = "none" /\ call.ret = None
        ELSE /\ call.ret # None
             /\ call.ret.kind = "dict"
             /\ DOMAIN call.ret.items = LiveNodes(call.g)

\* The placement of the component is over: it returned, gave up or raised
PlacementOver == kk.pc \in {"done", "gave_up", "raised"}

Overlap(r1, r2, e) ==
    /\ r1[1] + r1[3] > r2[1] + e /\ r2[1] + r2[3] > r1[1] + e
    /\ r1[2] + r1[4] > r2[2] + e /\ r2[2] + r2[4] > r1[2] + e

\* The rectangles assigned so far, two by two, do not overlap by more than e
Disjoint(e) ==
    \A i, j \in DOMAIN pack.rectangles :
        i # j => ~Overlap(pack.rectangles[i], pack.rectangles[j], e)

C36_RescaledIntoCanvas ==
    /\ (pack # NoPacking /\ pack.pc \in {"rescaled", "returned"}) =>
          LET R == pack.rectangles
          IN  /\ \A i \in DOMAIN R : R[i][1] >= 0 /\ R[i][2] >= 0
              /\ R[Len(pack.comps)][1] = 0 /\ R[Len(pack.comps)][2] = 0
              /\ Largest({R[i][1] + R[i][3] : i \in DOMAIN R}) = WIDTH
              /\ Largest({R[i][2] + R[i][4] : i \in DOMAIN R}) = HEIGHT
    /\ (pack # NoPacking /\ pack.pc = "returned") =>
          \A i \in DOMAIN pack.rectangles :
              LET r == pack.rectangles[i]
              IN  /\ \A x \in pack.xs[i] : r[1] <= x /\ x <= r[1] + r[3] /\ 0 <= x /\ x <= WIDTH
                  /\ \A y \in pack.ys[i] : r[2] <= y /\ y <= r[2] + r[4] /\ 0 <= y /\ y <= HEIGHT
                  /\ pack.comps[i].dx = 0 =>
                        \A x \in pack.xs[i] : 2 * x \in {2 * r[1] + r[3] - 1, 2 * r[1] + r[3]}
                  /\ pack.comps[i].dy = 0 =>
                        \A y \in pack.ys[i] : 2 * y \in {2 * r[2] + r[4] - 1, 2 * r[2] + r[4]}

\* C39. The drawer mirrors its graph: right after its construction, and after
\* every mutating call on the graph that returns, the keys of its node items
\* are the nodes of the graph and the keys of its link items are the links of
\* the graph; and a remove_node of a node of the graph makes the drawer
\* redraw once, after which the node has no item and no link item refers to
\* it.
C39_DrawerMirrorsGraph ==
    LET mirror == /\ drawer.nodeitems = LiveNodes(drawer.graph)
                  /\ drawer.arcitems = LiveLinks(drawer.graph)
    IN  drawer.built =>
          /\ drawer.fresh => mirror
          /\ (call # NoCall /\ call.g = drawer.graph /\ call.exc = "none"
              /\ call.op \in {"add_node", "add_link", "remove_link", "remove_node"})
             => mirror
          /\ (call # NoCall /\ call.g = drawer.graph /\ call.op = "remove_node"
              /\ call.exc \notin {"NodeMembershipError", "TypeError"})
             => /\ drawer.redraws = 1
                /\ call.args[1].id \notin drawer.nodeitems
                /\ \A k \in drawer.arcitems :
                      call.args[1].id \notin {extremities[k][1], extremities[k][2]}

====
